---- MODULE Spec2Model ----
(***************************************************************************)
(* Voice-journal client: the entry player (AudioLog), the transcription    *)
(* stage (ApiService.generateTranscription), the recorder's save pipeline  *)
(* (Recorder.saveRecording) and entry deletion (ApiService.deleteEntry).   *)
(*                                                                         *)
(* Each component has its own specification (SpecPlayer, SpecTranscribe,   *)
(* SpecSave, SpecRecorder, SpecLogs, SpecApp, SpecDelete) over the shared  *)
(* variables; a component that a specification does not run keeps its      *)
(* initial state.                                                          *)
(***************************************************************************)
EXTENDS Integers, Sequences, FiniteSets, TLC

(***************************************************************************)
(* Bounds of the model.                                                    *)
(***************************************************************************)
MaxStoredDuration == 3   \* largest Entry.duration (seconds) enumerated
MaxMediaLength == 3      \* largest true length of a media file (seconds)
MaxPendingPlay == 2      \* most play() promises pending at once

(***************************************************************************)
(* JavaScript numbers as the player sees them: a finite number, Infinity,  *)
(* NaN, or null/undefined for an optional field.                           *)
(***************************************************************************)
Num(n) == [k |-> "num", v |-> n]
INF == [k |-> "inf", v |-> 0]
NAN == [k |-> "nan", v |-> 0]
NULL == [k |-> "null", v |-> 0]
\* "no value reported yet" for the record of what the element reported
NONE == [k |-> "none", v |-> 0]

\* isFinite(x)
IsFinite(x) == x.k = "num"
\* x > 0 (Infinity > 0 is true, NaN > 0 and null > 0 are false)
GtZero(x) == x.k = "inf" \/ (x.k = "num" /\ x.v > 0)
\* truthiness of a number-or-null
Truthy(x) == x.k = "inf" \/ (x.k = "num" /\ x.v # 0)
Min(a, b) == IF a <= b THEN a ELSE b
Max(a, b) == IF a >= b THEN a ELSE b

VARIABLES
  \* ---- AudioLog (entry player) ----
  entry,           \* the Entry prop: duration and whether it has an audio path
  duration,        \* useState(0): duration state of the player
  currentTime,     \* useState(0)
  isPlaying,       \* useState(false)
  audioElement,    \* useState(null): TRUE once the Audio element is cached
  isLoadingAudio,  \* useState(false)
  audio,           \* the media element itself (meaningful once created)
  reported,        \* what the media element has reported: NONE or a number
  playPending,     \* number of audio.play() promises not yet settled
  seek,            \* the last handleSeek call: what was asked, shown and set
  signedUrl,       \* the signed URL the Audio element was created with
  otherEntry       \* the AudioLog of another entry of the list

VARIABLES
  \* ---- one call of ApiService.generateTranscription ----
  tcall,           \* the inputs of the call
  tresult          \* NoResult, or what the call did

VARIABLES
  \* ---- the services and the browser ----
  storage,         \* objects of the audio-recordings bucket
  dbRows,          \* rows of the entries table
  now,             \* the clock (Date.now())
  settings,        \* the user settings in local storage
  navigator,       \* navigator.language / navigator.languages
  lastSent         \* per caller, the last request the transcription service got

VARIABLES
  \* ---- AudioLogs ----
  entries,         \* useState<Entry[]>([])
  loading,         \* useState(true)
  fetching,        \* a fetchEntries call is awaiting its answer
  transcribingId,  \* useState(null); 0 is null
  regens           \* the generateTranscript calls, running and finished

VARIABLES
  \* ---- AudioLogs: deleting an entry ----
  deletingId,         \* useState(null); 0 is null
  showDeleteConfirm,  \* useState(null); 0 is null
  deletions           \* the AudioLogs.deleteEntry calls, running and finished

VARIABLES
  \* ---- ApiService.deleteEntry ----
  dcalls           \* the deleteEntry calls, running and finished

VARIABLES
  \* ---- Recorder ----
  recordingState,  \* useState<AudioRecordingState>
  isDeleting,      \* useState(false)
  selectedLanguage,\* useState(defaultLanguage)
  manuallySelected,\* the user changed the dropdown since it was last set
  mic,             \* MediaRecorders, streams, timers and the refs to them
  save,            \* the running saveRecording call and its history
  inflight,        \* requests of saveRecording awaiting their answer
  orphans,         \* objects whose save ended in a persistence failure
  entryCreated,    \* number of onEntryCreated() calls
  mounted,         \* the component is mounted
  preview          \* audioRef: the Audio element of the preview

playerVars == <<entry, duration, currentTime, isPlaying, audioElement,
                isLoadingAudio, audio, reported, playPending, seek,
                signedUrl, otherEntry>>
transcribeVars == <<tcall, tresult>>
envVars == <<storage, dbRows, now, settings, navigator, lastSent>>
logsVars == <<entries, loading, fetching, transcribingId, regens>>
deleteVars == <<dcalls>>
listVars == <<deletingId, showDeleteConfirm, deletions>>
recorderVars == <<recordingState, isDeleting, selectedLanguage,
                  manuallySelected, mic, save, inflight, orphans,
                  entryCreated, mounted, preview>>

vars == <<playerVars, transcribeVars, envVars, recorderVars, logsVars,
         deleteVars, listVars>>

\* The state of one AudioLog, without what the model adds around it
playerPage == <<entry, duration, currentTime, isPlaying, audioElement,
                isLoadingAudio, audio, reported, playPending, seek>>

\* What the actions of one component leave alone.
notPlayer ==
  <<transcribeVars, envVars, recorderVars, logsVars, deleteVars, listVars>>
notTranscribe ==
  <<playerVars, envVars, recorderVars, logsVars, deleteVars, listVars>>
notRecorder == <<playerVars, transcribeVars, logsVars, deleteVars, listVars>>
notLogs == <<playerVars, transcribeVars, recorderVars, deleteVars, listVars>>
notDelete == <<playerVars, transcribeVars, recorderVars, logsVars, listVars>>
notList == <<playerVars, transcribeVars, recorderVars, deleteVars>>

(***************************************************************************)
(* AudioLog                                                                *)
(***************************************************************************)
StoredDurations == {NULL} \cup {Num(n) : n \in 0..MaxStoredDuration}

NoAudio == [length |-> 0, currentTime |-> 0, paused |-> TRUE,
            metadata |-> FALSE, failed |-> FALSE]

\* What a media element of true length len can report as audio.duration when
\* loadedmetadata fires: the length, or Infinity / NaN / 0 (the capture format
\* does not always carry a duration).
MediaDurations(len) == {Num(len), INF, NAN, Num(0)}

\* No createSignedUrl call has returned a URL yet.
NoSignedUrl == [minted |-> 0, expired |-> FALSE]

\* The AudioLog of another entry: its Audio element and its isPlaying state.
OtherEntryIdle == [audioElement |-> FALSE, paused |-> TRUE,
                   isPlaying |-> FALSE]

NoSeek == [made |-> FALSE, requested |-> 0, displayed |-> Num(0),
           position |-> 0]

PlayerInit ==
  /\ seek = NoSeek
  /\ signedUrl = NoSignedUrl
  /\ otherEntry = OtherEntryIdle
  /\ entry \in [duration : StoredDurations, hasAudioPath : BOOLEAN]
  /\ duration = Num(0)
  /\ currentTime = 0
  /\ isPlaying = FALSE
  /\ audioElement = FALSE
  /\ isLoadingAudio = FALSE
  /\ audio = NoAudio
  /\ reported = NONE
  /\ playPending = 0

\* const displayDuration = duration > 0 ? duration : entry.duration || 0;
DisplayDuration(dur, storedDuration) ==
  IF GtZero(dur) THEN dur
  ELSE IF Truthy(storedDuration) THEN storedDuration ELSE Num(0)

displayDuration == DisplayDuration(duration, entry.duration)

\* Mutant of the loadedmetadata handler: the isFinite test is dropped.
OnLoadedMetadataNoFiniteCheck(audioDuration, storedDuration, dur) ==
  IF GtZero(audioDuration) THEN audioDuration
  ELSE IF Truthy(storedDuration) /\ GtZero(storedDuration) THEN storedDuration
  ELSE dur

\* The loadedmetadata listener: the new value of the duration state.
OnLoadedMetadata(audioDuration, storedDuration, dur) ==
  IF IsFinite(audioDuration) /\ GtZero(audioDuration) THEN audioDuration
  ELSE IF Truthy(storedDuration) /\ GtZero(storedDuration) THEN storedDuration
  ELSE dur

\* togglePlayPause on an entry whose Audio element is not cached yet: loadAudio
\* starts (setIsLoadingAudio(true)); with no audio path it throws at once and
\* the catch clears the flag again, otherwise it awaits createSignedUrl.
TogglePlayPauseLoad ==
  /\ ~isLoadingAudio
  /\ ~audioElement
  /\ entry.hasAudioPath   \* the button is disabled without an audio path
  /\ isLoadingAudio' = TRUE
  /\ UNCHANGED <<notPlayer, signedUrl, otherEntry, seek, entry, duration, currentTime, isPlaying, audioElement, audio,
                 reported, playPending>>

\* createSignedUrl failed: loadAudio returns null, togglePlayPause returns.
SignedUrlFailed ==
  /\ isLoadingAudio
  /\ isLoadingAudio' = FALSE
  /\ UNCHANGED <<notPlayer, signedUrl, otherEntry, seek, entry, duration, currentTime, isPlaying, audioElement, audio,
                 reported, playPending>>

\* createSignedUrl succeeded: the Audio element is created and cached, and
\* togglePlayPause continues with the isPlaying of the click (false): play().
SignedUrlReturned(len) ==
  /\ isLoadingAudio
  /\ audioElement' = TRUE
  /\ isLoadingAudio' = FALSE
  /\ audio' = [NoAudio EXCEPT !.length = len, !.paused = FALSE]
  /\ playPending' = 1
  /\ signedUrl' = [minted |-> signedUrl.minted + 1, expired |-> FALSE]
  /\ UNCHANGED <<notPlayer, otherEntry, seek, entry, duration, currentTime, isPlaying, reported>>

\* togglePlayPause with a cached element, isPlaying true: pause().  Pending
\* play() promises are rejected by the pause.
TogglePause ==
  /\ ~isLoadingAudio
  /\ audioElement
  /\ isPlaying
  /\ audio' = [audio EXCEPT !.paused = TRUE]
  /\ playPending' = 0
  /\ isPlaying' = FALSE
  /\ UNCHANGED <<notPlayer, signedUrl, otherEntry, seek, entry, duration, currentTime, audioElement, isLoadingAudio,
                 reported>>

\* togglePlayPause with a cached element, isPlaying false: await audio.play().
TogglePlay ==
  /\ ~isLoadingAudio
  /\ audioElement
  /\ ~isPlaying
  /\ playPending < MaxPendingPlay
  /\ audio' = [audio EXCEPT !.paused = audio.failed,
                            !.currentTime = IF audio.currentTime = audio.length
                                            THEN 0 ELSE audio.currentTime]
  /\ playPending' = playPending + 1
  /\ UNCHANGED <<notPlayer, signedUrl, otherEntry, seek, entry, duration, currentTime, isPlaying, audioElement,
                 isLoadingAudio, reported>>

\* Playback starts: the pending play() promises resolve together, and each
\* continuation runs setIsPlaying(true).
PlayResolved ==
  /\ playPending > 0
  /\ ~audio.paused
  /\ ~audio.failed
  /\ playPending' = 0
  /\ isPlaying' = TRUE
  /\ UNCHANGED <<notPlayer, signedUrl, otherEntry, seek, entry, duration, currentTime, audioElement, isLoadingAudio,
                 audio, reported>>

\* Playback cannot start (autoplay policy, unsupported source, aborted): the
\* pending play() promises reject together; the catch only logs.
PlayRejected ==
  /\ playPending > 0
  /\ playPending' = 0
  /\ audio' = [audio EXCEPT !.paused = TRUE]
  /\ UNCHANGED <<notPlayer, signedUrl, otherEntry, seek, entry, duration, currentTime, isPlaying, audioElement,
                 isLoadingAudio, reported>>

\* The media element fires loadedmetadata, once per element.
LoadedMetadata(d) ==
  /\ audioElement
  /\ ~audio.metadata
  /\ ~audio.failed
  /\ d \in MediaDurations(audio.length)
  /\ audio' = [audio EXCEPT !.metadata = TRUE]
  /\ reported' = d
  /\ duration' = OnLoadedMetadata(d, entry.duration, duration)
  /\ UNCHANGED <<notPlayer, signedUrl, otherEntry, seek, entry, currentTime, isPlaying, audioElement, isLoadingAudio,
                 playPending>>

\* Playback advances by a second and the element fires timeupdate (after
\* loadedmetadata: the element has no timeline before).
TimeUpdate ==
  /\ audioElement
  /\ audio.metadata   \* no playback position before the metadata is known
  /\ ~audio.paused
  /\ ~audio.failed
  /\ playPending = 0
  /\ audio.currentTime < audio.length
  /\ audio' = [audio EXCEPT !.currentTime = audio.currentTime + 1]
  /\ currentTime' = audio.currentTime + 1
  /\ UNCHANGED <<notPlayer, signedUrl, otherEntry, seek, entry, duration, isPlaying, audioElement, isLoadingAudio,
                 reported, playPending>>

\* Playback reaches the end of the media: the element pauses and fires ended.
Ended ==
  /\ audioElement
  /\ ~audio.paused
  /\ ~audio.failed
  /\ playPending = 0
  /\ audio.currentTime = audio.length
  /\ audio' = [audio EXCEPT !.paused = TRUE]
  /\ isPlaying' = FALSE
  /\ currentTime' = 0
  /\ UNCHANGED <<notPlayer, signedUrl, otherEntry, seek, entry, duration, audioElement, isLoadingAudio, reported,
                 playPending>>

\* The media element fires error (network or decode failure).
AudioError ==
  /\ audioElement
  /\ ~audio.failed
  /\ audio' = [audio EXCEPT !.failed = TRUE, !.paused = TRUE]
  /\ isPlaying' = FALSE
  /\ UNCHANGED <<notPlayer, signedUrl, otherEntry, seek, entry, duration, currentTime, audioElement, isLoadingAudio,
                 reported, playPending>>

\* handleSeek(value): clamps to [0, duration] when the duration state is known.
HandleSeek(newTime) ==
  /\ Truthy(displayDuration)   \* the slider is disabled otherwise
  /\ ~isLoadingAudio
  /\ IF audioElement /\ IsFinite(duration) /\ GtZero(duration)
     THEN LET clampedTime == Max(0, Min(duration.v, newTime))
          IN /\ audio' = [audio EXCEPT
                            !.currentTime = Min(clampedTime, audio.length)]
             /\ currentTime' = clampedTime
     ELSE UNCHANGED <<audio, currentTime>>
  /\ seek' = [made |-> TRUE, requested |-> newTime,
              displayed |-> displayDuration, position |-> currentTime']
  /\ UNCHANGED <<notPlayer, signedUrl, otherEntry, entry, duration, isPlaying, audioElement, isLoadingAudio,
                 reported, playPending>>

\* The expiry time of the signed URL (3600 seconds after it was made) passes.
SignedUrlExpires ==
  /\ signedUrl.minted > 0
  /\ ~signedUrl.expired
  /\ signedUrl' = [signedUrl EXCEPT !.expired = TRUE]
  /\ UNCHANGED <<notPlayer, playerPage, otherEntry>>

\* togglePlayPause of the AudioLog of another entry, run to its end: it loads
\* and plays its own element, or pauses it.  It has no access to the state of
\* this AudioLog.
OtherTogglePlayPause ==
  /\ otherEntry' = IF otherEntry.isPlaying
                   THEN [otherEntry EXCEPT !.paused = TRUE,
                                           !.isPlaying = FALSE]
                   ELSE [audioElement |-> TRUE, paused |-> FALSE,
                         isPlaying |-> TRUE]
  /\ UNCHANGED <<notPlayer, playerPage, signedUrl>>

\* The element of the other entry reaches its end.
OtherEnded ==
  /\ otherEntry.audioElement
  /\ ~otherEntry.paused
  /\ otherEntry' = [otherEntry EXCEPT !.paused = TRUE, !.isPlaying = FALSE]
  /\ UNCHANGED <<notPlayer, playerPage, signedUrl>>

PlayerNext ==
  \/ TogglePlayPauseLoad
  \/ SignedUrlFailed
  \/ \E len \in 1..MaxMediaLength : SignedUrlReturned(len)
  \/ TogglePause
  \/ TogglePlay
  \/ PlayResolved
  \/ PlayRejected
  \/ \E d \in {Num(n) : n \in 0..MaxMediaLength} \cup {INF, NAN} :
       LoadedMetadata(d)
  \/ TimeUpdate
  \/ Ended
  \/ AudioError
  \/ \E t \in 0..(MaxStoredDuration + 1) : HandleSeek(t)
  \/ SignedUrlExpires
  \/ OtherTogglePlayPause
  \/ OtherEnded

(***************************************************************************)
(* Strings.  Text whose characters matter (credentials, locales, the text  *)
(* the service returns) is a sequence of one-character strings; Join turns *)
(* it into a string.  An optional value is Undefined or Some(s).           *)
(***************************************************************************)
MaxTextLen == 2          \* longest text the transcription service returns

Undefined == [def |-> FALSE, s |-> ""]
Some(s) == [def |-> TRUE, s |-> s]
\* JavaScript falsiness of an optional string: undefined or ""
Falsy(o) == ~o.def \/ Len(o.s) = 0

RECURSIVE Join(_)
Join(chars) == IF chars = <<>> THEN "" ELSE Head(chars) \o Join(Tail(chars))

\* String.prototype.startsWith
StartsWith(chars, prefix) ==
  Len(chars) >= Len(prefix) /\ SubSeq(chars, 1, Len(prefix)) = prefix

IsWhitespace(c) == c \in {" ", "\t", "\n"}

RECURSIVE TrimStart(_)
TrimStart(chars) ==
  IF chars # <<>> /\ IsWhitespace(Head(chars)) THEN TrimStart(Tail(chars))
  ELSE chars

RECURSIVE TrimEnd(_)
TrimEnd(chars) ==
  IF chars # <<>> /\ IsWhitespace(chars[Len(chars)])
  THEN TrimEnd(SubSeq(chars, 1, Len(chars) - 1))
  ELSE chars

\* String.prototype.trim
Trim(chars) == TrimEnd(TrimStart(chars))

\* String.prototype.toLowerCase, on the letters the model uses
ToLowerChar(c) ==
  CASE c = "B" -> "b" [] c = "D" -> "d" [] c = "E" -> "e" [] c = "F" -> "f"
    [] c = "N" -> "n" [] c = "P" -> "p" [] c = "R" -> "r" [] c = "S" -> "s"
    [] c = "T" -> "t" [] c = "U" -> "u" [] c = "X" -> "x"
    [] OTHER -> c

ToLowerCase(chars) == [i \in 1..Len(chars) |-> ToLowerChar(chars[i])]

\* String.prototype.substring(0, n)
Substring0(chars, n) == SubSeq(chars, 1, Min(n, Len(chars)))

\* Math.round(n / 1000) for a non-negative integer n
RoundThousands(n) == (n + 500) \div 1000

\* new Date().toLocaleString() at clock value t
ToLocaleString(t) == "date" \o ToString(t)

(***************************************************************************)
(* ApiService.detectUserLanguage                                           *)
(***************************************************************************)
\* languageMap[code], Undefined for a code the table does not have
LanguageMap(code) ==
  CASE code = <<"e", "n">> -> Some("eng") [] code = <<"e", "s">> -> Some("spa")
    [] code = <<"f", "r">> -> Some("fra") [] code = <<"d", "e">> -> Some("deu")
    [] code = <<"i", "t">> -> Some("ita") [] code = <<"p", "t">> -> Some("por")
    [] code = <<"r", "u">> -> Some("rus") [] code = <<"j", "a">> -> Some("jpn")
    [] code = <<"k", "o">> -> Some("kor") [] code = <<"z", "h">> -> Some("cmn")
    [] code = <<"a", "r">> -> Some("ara") [] code = <<"h", "i">> -> Some("hin")
    [] code = <<"n", "l">> -> Some("nld") [] code = <<"p", "l">> -> Some("pol")
    [] code = <<"s", "v">> -> Some("swe") [] code = <<"d", "a">> -> Some("dan")
    [] code = <<"n", "o">> -> Some("nor") [] code = <<"f", "i">> -> Some("fin")
    [] code = <<"t", "r">> -> Some("tur") [] code = <<"c", "s">> -> Some("ces")
    [] code = <<"h", "u">> -> Some("hun") [] code = <<"r", "o">> -> Some("ron")
    [] code = <<"b", "g">> -> Some("bul") [] code = <<"h", "r">> -> Some("hrv")
    [] code = <<"s", "k">> -> Some("slk") [] code = <<"s", "l">> -> Some("slv")
    [] OTHER -> Undefined

\* The locale: navigator.language || navigator.languages?.[0] || "en-US"
NavigatorLocale(nav) ==
  IF ~Falsy(nav.language) THEN nav.language.s
  ELSE IF nav.languages # <<>> /\ nav.languages[1] # <<>>
       THEN nav.languages[1]
       ELSE <<"e", "n", "-", "U", "S">>

DetectUserLanguage(nav) ==
  LET locale == NavigatorLocale(nav)
      languageCode == ToLowerCase(Substring0(locale, 2))
      mapped == LanguageMap(languageCode)
  IN IF Falsy(mapped) THEN "eng" ELSE mapped.s

(***************************************************************************)
(* ApiService.generateTranscription                                        *)
(***************************************************************************)
Return(text, sent) == [kind |-> "return", text |-> text, sent |-> sent]
Throw(message, sent) == [kind |-> "throw", text |-> message, sent |-> sent]

\* Nothing was sent to the transcription service / the request that was sent
NotSent == [sent |-> FALSE, languageCode |-> ""]
Sent(code) == [sent |-> TRUE, languageCode |-> code]

\* Mutant: the locale guess is preferred to the caller's code.
ResolveLanguageCodeGuessFirst(languageCode, nav) ==
  IF ~Falsy(Some(DetectUserLanguage(nav)))
  THEN DetectUserLanguage(nav) ELSE languageCode.s

\* const detectedLanguageCode = languageCode || ApiService.detectUserLanguage()
ResolveLanguageCode(languageCode, nav) ==
  IF ~Falsy(languageCode) THEN languageCode.s
  ELSE DetectUserLanguage(nav)

PlaceholderText(clock, blobSize) ==
  "Transcription generated on " \o ToLocaleString(clock) \o " - Duration: "
    \o ToString(RoundThousands(blobSize)) \o "KB"

\* The body of the try block: returns a text or throws.  remote is what
\* client.speechToText.convert does: it returns a response or throws.
TranscriptionTry(apiKey, languageCode, nav, blobSize, clock, remote) ==
  IF Falsy(apiKey) THEN Return(PlaceholderText(clock, blobSize), NotSent)
  ELSE IF ~StartsWith(apiKey.s, <<"s", "k", "_">>)
  THEN Return(PlaceholderText(clock, blobSize), NotSent)
  ELSE LET sent == Sent(ResolveLanguageCode(languageCode, nav))
       IN IF remote.kind # "response" THEN Throw(remote.message, sent)
          ELSE IF remote.text.def /\ Len(remote.text.s) > 0
                    /\ Len(Trim(remote.text.s)) > 0
               THEN Return(Join(remote.text.s), sent)
               ELSE Throw("No transcription text returned from API", sent)

\* The catch block: a placeholder that embeds the error message.
TranscriptionCatch(thrown, clock) ==
  Return("Transcription failed on " \o ToLocaleString(clock)
           \o " - please try again later. Error: " \o thrown.text,
         thrown.sent)

\* Mutant: the catch block lets the error through.
GenerateTranscriptionRethrow(enabled, apiKey, languageCode, nav, blobSize, clock, remote) ==
  IF ~enabled
  THEN Return("Placeholder transcription generated on " \o ToLocaleString(clock)
                \o " - Duration: " \o ToString(RoundThousands(blobSize))
                \o "KB", NotSent)
  ELSE TranscriptionTry(apiKey, languageCode, nav, blobSize, clock, remote)

\* generateTranscription(audioBlob, languageCode): enabled is ENABLE_ELEVENLABS,
\* apiKey is VITE_ELEVENLABS_API_KEY.
GenerateTranscription(enabled, apiKey, languageCode, nav, blobSize, clock, remote) ==
  IF ~enabled
  THEN Return("Placeholder transcription generated on " \o ToLocaleString(clock)
                \o " - Duration: " \o ToString(RoundThousands(blobSize))
                \o "KB", NotSent)
  ELSE LET r == TranscriptionTry(apiKey, languageCode, nav, blobSize,
                                 clock, remote)
       IN IF r.kind = "throw" THEN TranscriptionCatch(r, clock) ELSE r

(***************************************************************************)
(* Inputs of the transcription stage.                                      *)
(***************************************************************************)
ApiKeys == {Undefined, Some(<<>>), Some(<<"s", "k">>),
            Some(<<"p", "k", "_", "1">>), Some(<<"s", "k", "_", "1">>)}

Navigators ==
  [language : {Undefined, Some(<<>>), Some(<<"p", "t", "-", "B", "R">>),
               Some(<<"F", "R">>), Some(<<"x", "x">>), Some(<<"e">>)},
   languages : {<<>>, << <<"d", "e", "-", "D", "E">> >>}]

LanguageArgs == {Undefined, Some(""), Some("spa"), Some("eng")}

BlobSizes == {0, 499, 1500}

TextChars == {" ", "a"}
Texts == UNION {[1..n -> TextChars] : n \in 0..MaxTextLen}

\* What the remote call can do: respond (with a text, or without one), throw
\* an Error with a message, or throw something that is not an Error.
RemoteOutcomes ==
  {[kind |-> "response", text |-> Some(t), message |-> ""] : t \in Texts}
    \cup {[kind |-> "response", text |-> Undefined, message |-> ""]}
    \cup {[kind |-> "throw", text |-> Undefined, message |-> m] :
            m \in {"", "quota exceeded", "Unknown error"}}

NoResult == [kind |-> "none", text |-> "", sent |-> NotSent]

TranscribeCalls ==
  [enabled : BOOLEAN, apiKey : ApiKeys, languageCode : LanguageArgs,
   navigator : Navigators, blobSize : BlobSizes, now : {0},
   remote : RemoteOutcomes]

NoCall == [enabled |-> TRUE, apiKey |-> Undefined, languageCode |-> Undefined,
           navigator |-> [language |-> Undefined, languages |-> <<>>],
           blobSize |-> 0, now |-> 0,
           remote |-> [kind |-> "response", text |-> Undefined,
                       message |-> ""]]

TranscribeIdle == tcall = NoCall /\ tresult = NoResult

TranscribeInit == tcall \in TranscribeCalls /\ tresult = NoResult

\* The call runs to its end.
CallGenerateTranscription ==
  /\ tresult = NoResult
  /\ tresult' = GenerateTranscription(tcall.enabled, tcall.apiKey,
                  tcall.languageCode, tcall.navigator, tcall.blobSize,
                  tcall.now, tcall.remote)
  /\ UNCHANGED <<notTranscribe, tcall>>

TranscribeNext == CallGenerateTranscription

PlayerIdle ==
  /\ seek = NoSeek
  /\ signedUrl = NoSignedUrl
  /\ otherEntry = OtherEntryIdle
  /\ entry = [duration |-> NULL, hasAudioPath |-> FALSE]
  /\ duration = Num(0)
  /\ currentTime = 0
  /\ isPlaying = FALSE
  /\ audioElement = FALSE
  /\ isLoadingAudio = FALSE
  /\ audio = NoAudio
  /\ reported = NONE
  /\ playPending = 0

(***************************************************************************)
(* The services: object storage, the entries table, the clock, the user    *)
(* settings and the browser locale.                                        *)
(***************************************************************************)
MaxClock == 1            \* the clock runs from 0 to MaxClock

\* A storage path or URL is a sequence of tokens in which "/" stands alone:
\* u1/rec.webm is <<"u1", "/", "rec.webm">>.
UserId == "u1"

\* supabase.storage.upload(path, blob, {upsert}): the bucket afterwards, or
\* the bucket unchanged when the object exists and upsert is false.  by is the
\* save attempt that wrote the object.
StorageUploadUpsert(bucket, path, size, by) ==
  {o \in bucket : o.path # path} \cup {[path |-> path, size |-> size, by |-> by]}

StorageUpload(bucket, path, size, by) ==
  IF \E o \in bucket : o.path = path THEN bucket
  ELSE bucket \cup {[path |-> path, size |-> size, by |-> by]}

StorageHas(bucket, path) == \E o \in bucket : o.path = path

\* A request as the transcription service saw it, with what the caller had
\* in the dropdown (selected) and whether the user had picked it (manual).
NoTranscriptionRequest ==
  [sent |-> FALSE, languageCode |-> "", selected |-> "", manual |-> FALSE]
NothingSent ==
  [save |-> NoTranscriptionRequest, regenerate |-> NoTranscriptionRequest]

SettingsChoices ==
  [defaultLanguage : {"eng", "spa"}, autoDetectLanguage : BOOLEAN]

\* Two browsers: a Portuguese one and one whose locale the table does not map.
RecorderNavigators ==
  {[language |-> Some(<<"p", "t", "-", "B", "R">>), languages |-> <<>>],
   [language |-> Some(<<"x", "x">>), languages |-> <<>>]}

EnvInit ==
  /\ storage = {}
  /\ dbRows = {}
  /\ now = 0
  /\ settings \in SettingsChoices
  /\ navigator \in RecorderNavigators
  /\ lastSent = NothingSent

EnvIdle ==
  /\ storage = {}
  /\ dbRows = {}
  /\ now = 0
  /\ settings = [defaultLanguage |-> "eng", autoDetectLanguage |-> TRUE]
  /\ navigator = [language |-> Undefined, languages |-> <<>>]
  /\ lastSent = NothingSent

(***************************************************************************)
(* Recorder                                                                *)
(***************************************************************************)
MaxStarts == 1           \* recordings started in one behaviour
MaxChunks == 1           \* chunks a recording accumulates
MaxRecordSeconds == 2    \* seconds a recording timer counts
MaxAttempts == 2         \* save attempts in one behaviour
ChunkSize == 1500        \* bytes of a non-empty chunk

NoBlob == [def |-> FALSE, size |-> 0]
Blob(size) == [def |-> TRUE, size |-> size]

IdleRecordingState ==
  [isRecording |-> FALSE, isLoading |-> FALSE, isPlaying |-> FALSE,
   audioBlob |-> NoBlob, duration |-> 0, error |-> Undefined]

IdleSave ==
  [pc |-> "idle", attempt |-> 0, log |-> <<>>,
   ctx |-> [blob |-> NoBlob, duration |-> 0, selectedLanguage |-> "",
            manual |-> FALSE, filePath |-> <<>>,
            originalAudioUrl |-> Undefined, language |-> "",
            transcription |-> ""]]

IdleMic ==
  [recorders |-> <<>>, mediaRecorderRef |-> 0, timers |-> <<>>,
   intervalRef |-> 0, chunks |-> <<>>, pending |-> 0, starts |-> 0,
   orphanStreams |-> 0]

\* audioRef.current is null until the first playRecording; pending is the
\* play() promise of the element, not settled yet.
NoPreview == [exists |-> FALSE, paused |-> TRUE, pending |-> FALSE,
              failed |-> FALSE]

RecorderInit ==
  /\ mounted = TRUE
  /\ preview = NoPreview
  /\ recordingState = IdleRecordingState
  /\ isDeleting = FALSE
  /\ selectedLanguage = settings.defaultLanguage
  /\ manuallySelected = FALSE
  /\ mic = IdleMic
  /\ save = IdleSave
  /\ inflight = {}
  /\ orphans = {}
  /\ entryCreated = 0

RecorderIdle ==
  /\ mounted = TRUE
  /\ preview = NoPreview
  /\ recordingState = IdleRecordingState
  /\ isDeleting = FALSE
  /\ selectedLanguage = "eng"
  /\ manuallySelected = FALSE
  /\ mic = IdleMic
  /\ save = IdleSave
  /\ inflight = {}
  /\ orphans = {}
  /\ entryCreated = 0

RECURSIVE SumSeq(_)
SumSeq(q) == IF q = <<>> THEN 0 ELSE Head(q) + SumSeq(Tail(q))

\* The state of the recorder's state machine that the component shows
RecorderPhase(rs) ==
  IF rs.isLoading THEN "Uploading"
  ELSE IF rs.isRecording THEN "Recording"
  ELSE IF rs.audioBlob.def THEN "Finalized"
  ELSE "Idle"

\* The languages of the dropdown that the model offers
LanguageChoices == {"eng", "spa"}

\* The record/stop button is rendered while there is no blob and is disabled
\* while loading; the save interface replaces it once there is a blob.
RecordButtonEnabled ==
  ~recordingState.audioBlob.def /\ ~recordingState.isLoading
\* Mutant: the buttons of the save interface are not disabled while loading.
SaveInterfaceEnabledWhileLoading ==
  recordingState.audioBlob.def /\ ~isDeleting
SaveInterfaceEnabled ==
  recordingState.audioBlob.def /\ ~recordingState.isLoading /\ ~isDeleting

\* Click on the record button while not recording: startRecording awaits
\* getUserMedia.
StartRecording(maxStarts) ==
  /\ mounted
  /\ RecordButtonEnabled
  /\ ~recordingState.isRecording
  /\ mic.starts < maxStarts
  /\ mic' = [mic EXCEPT !.pending = @ + 1, !.starts = @ + 1]
  /\ UNCHANGED <<notRecorder, mounted, preview, envVars, recordingState, isDeleting,
                 selectedLanguage, manuallySelected, save, inflight, orphans,
                 entryCreated>>

\* getUserMedia resolved and audio/webm is supported: the MediaRecorder and the
\* timer start.
MicrophoneGranted ==
  /\ mic.pending > 0
  /\ mic' = [mic EXCEPT
       !.pending = @ - 1,
       !.chunks = <<>>,
       !.recorders = Append(@, [state |-> "recording", streamLive |-> TRUE]),
       !.mediaRecorderRef = Len(mic.recorders) + 1,
       !.timers = Append(@, [live |-> TRUE, elapsed |-> 0]),
       !.intervalRef = Len(mic.timers) + 1]
  /\ recordingState' = [recordingState EXCEPT
       !.isRecording = TRUE, !.duration = 0, !.error = Undefined]
  /\ UNCHANGED <<notRecorder, mounted, preview, envVars, isDeleting, selectedLanguage,
                 manuallySelected, save, inflight, orphans, entryCreated>>

\* getUserMedia rejected (streamAcquired false), or it resolved and audio/webm
\* is not supported (streamAcquired true): the catch sets the error.
MicrophoneFailed(errorMessage, streamAcquired) ==
  /\ mic.pending > 0
  /\ mic' = [mic EXCEPT
       !.pending = @ - 1,
       !.orphanStreams = IF streamAcquired THEN @ + 1 ELSE @]
  /\ recordingState' = [recordingState EXCEPT !.error = Some(errorMessage)]
  /\ UNCHANGED <<notRecorder, mounted, preview, envVars, isDeleting, selectedLanguage,
                 manuallySelected, save, inflight, orphans, entryCreated>>

\* ondataavailable of recorder i: a non-empty chunk is pushed.
DataAvailable(i, size) ==
  /\ i \in 1..Len(mic.recorders)
  /\ mic.recorders[i].state \in {"recording", "stopping"}
  /\ Len(mic.chunks) < MaxChunks
  /\ mic' = [mic EXCEPT
       !.chunks = IF size > 0 THEN Append(@, size) ELSE @]
  /\ UNCHANGED <<notRecorder, mounted, preview, envVars, recordingState, isDeleting,
                 selectedLanguage, manuallySelected, save, inflight, orphans,
                 entryCreated>>

\* The interval callback of timer i.
TimerTick(i) ==
  /\ i \in 1..Len(mic.timers)
  /\ mic.timers[i].live
  /\ mic.timers[i].elapsed < MaxRecordSeconds
  /\ mic' = [mic EXCEPT !.timers[i].elapsed = @ + 1]
  /\ recordingState' = [recordingState EXCEPT
       !.duration = mic.timers[i].elapsed + 1]
  /\ UNCHANGED <<notRecorder, mounted, preview, envVars, isDeleting, selectedLanguage,
                 manuallySelected, save, inflight, orphans, entryCreated>>

\* clearInterval(intervalRef.current); intervalRef.current = null
ClearInterval(m) ==
  [m EXCEPT
     !.timers = [t \in DOMAIN m.timers |->
                   IF t = m.intervalRef THEN [m.timers[t] EXCEPT !.live = FALSE]
                   ELSE m.timers[t]],
     !.intervalRef = 0]

\* Click on the stop button: stopRecording.  stop() on a recorder that is no
\* longer recording either throws (the interval is then not cleared) or
\* returns, depending on the browser.
StopRecording ==
  /\ mounted
  /\ RecordButtonEnabled
  /\ recordingState.isRecording
  /\ mic.mediaRecorderRef # 0
  /\ IF mic.recorders[mic.mediaRecorderRef].state = "recording"
     THEN mic' = ClearInterval([mic EXCEPT
                   !.recorders[mic.mediaRecorderRef].state = "stopping"])
     ELSE mic' = mic \/ mic' = ClearInterval(mic)
  /\ UNCHANGED <<notRecorder, mounted, preview, envVars, recordingState, isDeleting,
                 selectedLanguage, manuallySelected, save, inflight, orphans,
                 entryCreated>>

\* onstop of recorder i: the chunks become the blob, the stream is released;
\* the effect on audioBlob then shows the default language in the dropdown.
OnStop(i) ==
  /\ i \in 1..Len(mic.recorders)
  /\ mic.recorders[i].state = "stopping"
  /\ mic' = [mic EXCEPT !.recorders[i] =
                          [state |-> "inactive", streamLive |-> FALSE]]
  /\ recordingState' = [recordingState EXCEPT
       !.isRecording = FALSE, !.audioBlob = Blob(SumSeq(mic.chunks))]
  /\ selectedLanguage' = settings.defaultLanguage
  /\ manuallySelected' = FALSE
  /\ UNCHANGED <<notRecorder, mounted, preview, envVars, isDeleting, save, inflight, orphans,
                 entryCreated>>

\* onerror of recorder i; the recorder then delivers its data and stops.
OnError(i) ==
  /\ i \in 1..Len(mic.recorders)
  /\ mic.recorders[i].state = "recording"
  /\ mic' = [mic EXCEPT !.recorders[i] =
                          [state |-> "stopping", streamLive |-> FALSE]]
  /\ recordingState' = [recordingState EXCEPT
       !.error = Some("Recording failed. Please try again."),
       !.isRecording = FALSE]
  /\ UNCHANGED <<notRecorder, mounted, preview, envVars, isDeleting, selectedLanguage,
                 manuallySelected, save, inflight, orphans, entryCreated>>

\* The user picks a language in the dropdown of the save interface.
SelectLanguage(code) ==
  /\ mounted
  /\ SaveInterfaceEnabled
  /\ code # selectedLanguage
  /\ selectedLanguage' = code
  /\ manuallySelected' = TRUE
  /\ UNCHANGED <<notRecorder, mounted, preview, envVars, recordingState, isDeleting, mic, save,
                 inflight, orphans, entryCreated>>

\* Click on Discard: resetRecording shows the deleting state for 300 ms.
ResetRecording ==
  /\ mounted
  /\ SaveInterfaceEnabled
  /\ isDeleting' = TRUE
  /\ UNCHANGED <<notRecorder, mounted, preview, envVars, recordingState, selectedLanguage,
                 manuallySelected, mic, save, inflight, orphans, entryCreated>>

\* The timeout of resetRecording: the preview is paused, the interval is
\* cleared, the state reset.
ResetTimeout ==
  /\ isDeleting
  /\ preview' = [preview EXCEPT !.paused = TRUE]
  /\ mic' = ClearInterval(mic)
  /\ recordingState' = IdleRecordingState
  /\ isDeleting' = FALSE
  /\ UNCHANGED <<notRecorder, mounted, envVars, selectedLanguage, manuallySelected,
                 save, inflight, orphans, entryCreated>>

\* The clock advances.
ClockTick ==
  /\ now < MaxClock
  /\ now' = now + 1
  /\ UNCHANGED <<notRecorder, mounted, preview, recorderVars, storage, dbRows, settings,
                 navigator, lastSent>>

(***************************************************************************)
(* ApiService.processAudio and Recorder.saveRecording                      *)
(***************************************************************************)
EnableElevenLabs == TRUE   \* const ENABLE_ELEVENLABS

\* processAudio(audioBlob, languageCode)
ProcessAudio(apiKey, languageCode, nav, blobSize, clock, remote) ==
  LET r == GenerateTranscription(EnableElevenLabs, apiKey, languageCode, nav,
                                 blobSize, clock, remote)
  IN IF r.kind = "throw"
     THEN [transcription |-> "Transcription failed - please try again",
           success |-> FALSE, sent |-> r.sent]
     ELSE [transcription |-> r.text, success |-> TRUE, sent |-> r.sent]

\* Mutant: the dropdown value is always used.
LanguageForProcessingSelectedOnly(userSettings, selected, nav) == selected

\* const languageForProcessing = userSettings.autoDetectLanguage
\*   ? ApiService.detectUserLanguage() : selectedLanguage;
LanguageForProcessing(userSettings, selected, nav) ==
  IF userSettings.autoDetectLanguage THEN DetectUserLanguage(nav)
  ELSE selected

\* Mutant: the null check on the upload result is missing.
UploadFailedNeverChecked(originalAudioUrl) == FALSE

\* if (!originalAudioUrl) throw
UploadFailed(originalAudioUrl) == Falsy(originalAudioUrl)

\* Mutant: the transcription is requested together with the upload.
StagesIssuedBySaveConcurrent == {"upload", "transcribe"}

\* The requests saveRecording issues before its first await returns
StagesIssuedBySave == {"upload"}

\* Mutant: the transcript is left out of the row.
EntryToSaveNoTranscript(ctx, transcription, by) ==
  [user_id |-> UserId,
   title |-> "Founder Log - " \o ToLocaleString(now),
   original_audio_url |-> ctx.originalAudioUrl,
   processed_audio_url |-> ctx.originalAudioUrl,
   transcription |-> Undefined,
   duration |-> ctx.duration,
   by |-> by]

\* The argument of ApiService.saveEntry; by is the save attempt.
EntryToSave(ctx, transcription, by) ==
  [user_id |-> UserId,
   title |-> "Founder Log - " \o ToLocaleString(now),
   original_audio_url |-> ctx.originalAudioUrl,
   processed_audio_url |-> ctx.originalAudioUrl,
   transcription |-> Some(transcription),
   duration |-> ctx.duration,
   by |-> by]

\* The id the table assigns to a new row
NextId(rows) ==
  IF rows = {} THEN 1
  ELSE 1 + (CHOOSE m \in {r.id : r \in rows} : \A r \in rows : r.id <= m)

\* insert(entry).select().single(): the row with its assigned id
InsertedRow(e, rows) ==
  [id |-> NextId(rows), user_id |-> e.user_id, title |-> e.title,
   original_audio_url |-> e.original_audio_url,
   processed_audio_url |-> e.processed_audio_url,
   transcription |-> e.transcription, duration |-> e.duration,
   created_at |-> now, updated_at |-> now, by |-> e.by]

\* The catch block of saveRecording
SaveFailed(rs, message) ==
  [rs EXCEPT !.isLoading = FALSE, !.error = Some(message)]

Request(stage) == [stage |-> stage, attempt |-> save.attempt]

\* Mutant: the object is written at the top level of the bucket.
FilePathNoOwner(userId, fileName) == <<fileName>>

\* uploadAudio: const filePath = `${userId}/${fileName}`
FilePath(userId, fileName) == <<userId, "/", fileName>>

\* Click on Save Recording: the synchronous part of saveRecording, up to the
\* await of uploadAudio (or to the catch, for an empty blob).
SaveRecording ==
  /\ mounted
  /\ SaveInterfaceEnabled
  /\ save.attempt < MaxAttempts
  /\ LET attempt == save.attempt + 1
         blob == recordingState.audioBlob
         fileName == "recording_" \o ToString(now) \o ".webm"
         ctx == [IdleSave.ctx EXCEPT
                   !.blob = blob,
                   !.duration = recordingState.duration,
                   !.selectedLanguage = selectedLanguage,
                   !.manual = manuallySelected,
                   !.filePath = FilePath(UserId, fileName)]
     IN IF blob.size = 0
        THEN /\ recordingState' = SaveFailed(recordingState,
                  "Recording is empty. Please try recording again.")
             /\ save' = [pc |-> "idle", attempt |-> attempt,
                         log |-> <<"empty">>, ctx |-> ctx]
             /\ UNCHANGED inflight
        ELSE /\ recordingState' = [recordingState EXCEPT
                  !.isLoading = TRUE, !.error = Undefined]
             /\ save' = [pc |-> "upload", attempt |-> attempt,
                         log |-> <<"upload:issued">>, ctx |-> ctx]
             /\ inflight' = inflight \cup
                  {[stage |-> st, attempt |-> attempt] :
                     st \in StagesIssuedBySave}
  /\ UNCHANGED <<notRecorder, mounted, preview, envVars, isDeleting, selectedLanguage,
                 manuallySelected, mic, orphans, entryCreated>>

\* uploadAudio returns.  The storage call fails when the environment makes it
\* fail (ok is false) or when the object exists; uploadAudio then returns
\* null and saveRecording throws.  Otherwise the path is returned and
\* processAudio is called with the language for processing.
UploadReturns(ok) ==
  /\ save.pc = "upload"
  /\ Request("upload") \in inflight
  /\ LET path == save.ctx.filePath
         bucket == IF ok THEN StorageUpload(storage, path,
                                            save.ctx.blob.size, save.attempt)
                   ELSE storage
         stored == ok /\ ~StorageHas(storage, path) /\ StorageHas(bucket, path)
         overwritten == ok /\ StorageHas(storage, path) /\ bucket # storage
         originalAudioUrl == IF stored \/ overwritten THEN Some(path)
                             ELSE Undefined
         \* what uploadAudio returned, recorded before the caller looks at it
         returned == IF Falsy(originalAudioUrl) THEN "upload:failed"
                     ELSE "upload:ok"
     IN /\ storage' = bucket
        /\ IF UploadFailed(originalAudioUrl)
           THEN /\ recordingState' = SaveFailed(recordingState,
                     "Failed to upload audio file.")
                /\ save' = [save EXCEPT !.pc = "idle",
                              !.log = Append(@, returned)]
                /\ inflight' = inflight \ {Request("upload")}
           ELSE /\ save' = [save EXCEPT
                     !.pc = "transcribe",
                     !.log = Append(Append(@, returned),
                                    "transcribe:issued"),
                     !.ctx.originalAudioUrl = originalAudioUrl,
                     !.ctx.language = LanguageForProcessing(
                                        settings, save.ctx.selectedLanguage,
                                        navigator)]
                /\ inflight' = (inflight \ {Request("upload")})
                                 \cup {Request("transcribe")}
                /\ UNCHANGED recordingState
  /\ UNCHANGED <<notRecorder, mounted, preview, dbRows, now, settings, navigator, lastSent,
                 isDeleting, selectedLanguage, manuallySelected, mic, orphans,
                 entryCreated>>

\* processAudio returns (it always does): saveEntry is called.
TranscribeReturns(apiKey, remote) ==
  /\ save.pc = "transcribe"
  /\ Request("transcribe") \in inflight
  /\ LET processResult == ProcessAudio(apiKey, Some(save.ctx.language),
                            navigator, save.ctx.blob.size, now, remote)
     IN /\ save' = [save EXCEPT
              !.pc = "persist",
              !.log = Append(Append(@, "transcribe:returned"),
                             "persist:issued"),
              !.ctx.transcription = processResult.transcription]
        /\ lastSent' = [lastSent EXCEPT !.save =
              [sent |-> processResult.sent.sent,
               languageCode |-> processResult.sent.languageCode,
               selected |-> save.ctx.selectedLanguage,
               manual |-> save.ctx.manual]]
  /\ inflight' = (inflight \ {Request("transcribe")}) \cup {Request("persist")}
  /\ UNCHANGED <<notRecorder, mounted, preview, storage, dbRows, now, settings, navigator,
                 recordingState, isDeleting,
                 selectedLanguage, manuallySelected, mic, orphans,
                 entryCreated>>

\* saveEntry returns: the row (the insert succeeded) or null.
PersistReturns(ok) ==
  /\ save.pc = "persist"
  /\ Request("persist") \in inflight
  /\ inflight' = inflight \ {Request("persist")}
  /\ IF ok
     THEN /\ dbRows' = dbRows \cup
               {InsertedRow(EntryToSave(save.ctx, save.ctx.transcription,
                                        save.attempt), dbRows)}
          /\ recordingState' = IdleRecordingState
          /\ entryCreated' = entryCreated + 1
          /\ save' = [save EXCEPT !.pc = "idle",
                        !.log = Append(@, "persist:ok")]
          /\ UNCHANGED orphans
     ELSE /\ recordingState' = SaveFailed(recordingState,
               "Failed to save recording to database. Please try again.")
          /\ save' = [save EXCEPT !.pc = "idle",
                        !.log = Append(@, "persist:failed")]
          /\ orphans' = orphans \cup
               {[path |-> save.ctx.filePath, size |-> save.ctx.blob.size,
                 by |-> save.attempt]}
          /\ UNCHANGED <<dbRows, entryCreated>>
  /\ UNCHANGED <<notRecorder, mounted, preview, storage, now, settings, navigator, lastSent,
                 isDeleting, selectedLanguage, manuallySelected, mic>>

\* The credentials and remote outcomes the save pipeline is run against
SaveApiKeys == {Undefined, Some(<<"s", "k", "_", "1">>)}
SaveRemoteOutcomes ==
  {[kind |-> "response", text |-> Some(<<"a">>), message |-> ""],
   [kind |-> "response", text |-> Some(<<" ">>), message |-> ""],
   [kind |-> "throw", text |-> Undefined, message |-> "quota exceeded"]}

RecorderNext ==
  \/ StartRecording(MaxStarts)
  \/ MicrophoneGranted
  \/ \E streamAcquired \in BOOLEAN :
       MicrophoneFailed("Failed to access microphone.", streamAcquired)
  \/ \E i \in 1..MaxStarts, size \in {0, ChunkSize} : DataAvailable(i, size)
  \/ \E i \in 1..MaxStarts : TimerTick(i)
  \/ StopRecording
  \/ \E i \in 1..MaxStarts : OnStop(i)
  \/ \E i \in 1..MaxStarts : OnError(i)
  \/ \E code \in LanguageChoices : SelectLanguage(code)
  \/ ResetRecording
  \/ ResetTimeout
  \/ ClockTick
  \/ SaveRecording
  \/ \E ok \in BOOLEAN : UploadReturns(ok)
  \/ \E apiKey \in SaveApiKeys, remote \in SaveRemoteOutcomes :
       TranscribeReturns(apiKey, remote)
  \/ \E ok \in BOOLEAN : PersistReturns(ok)

(***************************************************************************)
(* Recorder: preview playback and unmount                                  *)
(***************************************************************************)
PlayFailedMessage == "Failed to play recording. Please try recording again."

\* Click on the preview button while isPlaying is false: playRecording makes
\* a new Audio element, calls play() and sets isPlaying without awaiting it.
PlayRecording ==
  /\ mounted
  /\ SaveInterfaceEnabled
  /\ ~recordingState.isPlaying
  /\ preview' = [exists |-> TRUE, paused |-> FALSE, pending |-> TRUE,
                 failed |-> FALSE]
  /\ recordingState' = [recordingState EXCEPT !.isPlaying = TRUE]
  /\ UNCHANGED <<notRecorder, envVars, mounted, isDeleting, selectedLanguage,
                 manuallySelected, mic, save, inflight, orphans, entryCreated>>

\* The play() promise resolves: playback has started.
PreviewPlayResolved ==
  /\ preview.pending
  /\ ~preview.paused
  /\ ~preview.failed
  /\ preview' = [preview EXCEPT !.pending = FALSE]
  /\ UNCHANGED <<notRecorder, envVars, mounted, recordingState, isDeleting,
                 selectedLanguage, manuallySelected, mic, save, inflight,
                 orphans, entryCreated>>

\* The play() promise rejects (not allowed, unsupported source, or aborted by
\* a pause): the catch clears isPlaying and sets the error.
PreviewPlayRejected ==
  /\ preview.pending
  /\ preview' = [preview EXCEPT !.pending = FALSE, !.paused = TRUE]
  /\ recordingState' = [recordingState EXCEPT
       !.isPlaying = FALSE, !.error = Some(PlayFailedMessage)]
  /\ UNCHANGED <<notRecorder, envVars, mounted, isDeleting, selectedLanguage,
                 manuallySelected, mic, save, inflight, orphans, entryCreated>>

\* Click on the preview button while isPlaying is true: pausePlayback.
PausePlayback ==
  /\ mounted
  /\ SaveInterfaceEnabled
  /\ recordingState.isPlaying
  /\ preview.exists
  /\ preview' = [preview EXCEPT !.paused = TRUE]
  /\ recordingState' = [recordingState EXCEPT !.isPlaying = FALSE]
  /\ UNCHANGED <<notRecorder, envVars, mounted, isDeleting, selectedLanguage,
                 manuallySelected, mic, save, inflight, orphans, entryCreated>>

\* The preview reaches the end of the recording: onended.
PreviewEnded ==
  /\ preview.exists
  /\ ~preview.paused
  /\ ~preview.pending
  /\ ~preview.failed
  /\ preview' = [preview EXCEPT !.paused = TRUE]
  /\ recordingState' = [recordingState EXCEPT !.isPlaying = FALSE]
  /\ UNCHANGED <<notRecorder, envVars, mounted, isDeleting, selectedLanguage,
                 manuallySelected, mic, save, inflight, orphans, entryCreated>>

\* The preview element fires error: onerror.
PreviewError ==
  /\ preview.exists
  /\ ~preview.failed
  /\ preview' = [preview EXCEPT !.failed = TRUE, !.paused = TRUE]
  /\ recordingState' = [recordingState EXCEPT
       !.isPlaying = FALSE, !.error = Some(PlayFailedMessage)]
  /\ UNCHANGED <<notRecorder, envVars, mounted, isDeleting, selectedLanguage,
                 manuallySelected, mic, save, inflight, orphans, entryCreated>>

\* What the cleanup of the unmount effect does to the recorders and streams
UnmountCleanup(m) ==
  [m EXCEPT
     !.timers = [t \in DOMAIN m.timers |->
                   IF t = m.intervalRef THEN [m.timers[t] EXCEPT !.live = FALSE]
                   ELSE m.timers[t]]]

\* The component unmounts: the cleanup clears the interval of intervalRef and
\* pauses the preview.  Handlers of the page are gone; callbacks of recorders,
\* timers and requests that are still alive keep running.
Unmount ==
  /\ mounted
  /\ mounted' = FALSE
  /\ mic' = UnmountCleanup(mic)
  /\ preview' = [preview EXCEPT !.paused = TRUE]
  /\ UNCHANGED <<notRecorder, envVars, recordingState, isDeleting,
                 selectedLanguage, manuallySelected, save, inflight, orphans,
                 entryCreated>>

\* The recording half of the component on its own, with room for a second
\* click on the record button.
MaxMicStarts == 2        \* clicks on the record button in one behaviour

MicNext ==
  \/ StartRecording(MaxMicStarts)
  \/ MicrophoneGranted
  \/ \E streamAcquired \in BOOLEAN :
       MicrophoneFailed("Failed to access microphone.", streamAcquired)
  \/ \E i \in 1..MaxMicStarts, size \in {0, ChunkSize} : DataAvailable(i, size)
  \/ \E i \in 1..MaxMicStarts : TimerTick(i)
  \/ StopRecording
  \/ \E i \in 1..MaxMicStarts : OnStop(i)
  \/ \E i \in 1..MaxMicStarts : OnError(i)
  \/ ResetRecording
  \/ ResetTimeout

RecorderLifeNext ==
  \/ RecorderNext
  \/ PlayRecording
  \/ PreviewPlayResolved
  \/ PreviewPlayRejected
  \/ PausePlayback
  \/ PreviewEnded
  \/ PreviewError
  \/ Unmount

(***************************************************************************)
(* Rows that earlier sessions left in the entries table, and their         *)
(* objects.  The current recorder stores one path in both references; the  *)
(* first revision stored a processed file of its own, and the uploader     *)
(* once returned public URLs.                                              *)
(***************************************************************************)
PathOf(file) == <<UserId, "/", file>>
UrlOf(file) ==
  <<"https:", "/", "/", "host", "/", "audio-recordings", "/", UserId, "/",
    file>>

SeedRow(id, original, processed, transcription) ==
  [id |-> id, user_id |-> UserId, title |-> "Founder Log - seed",
   original_audio_url |-> original, processed_audio_url |-> processed,
   transcription |-> transcription, duration |-> 2,
   created_at |-> 0, updated_at |-> 0, by |-> 0]

SeedRows ==
  {SeedRow(1, Some(PathOf("a.webm")), Some(PathOf("a.webm")), Some("old")),
   SeedRow(2, Some(PathOf("b.webm")), Some(PathOf("processed_b.mp3")),
           Undefined),
   SeedRow(3, Some(UrlOf("c.webm")), Some(UrlOf("processed_c.mp3")),
           Some("old")),
   SeedRow(4, Some(PathOf("d.webm")), Undefined, Undefined)}

SeedObjects ==
  {[path |-> PathOf(f), size |-> ChunkSize, by |-> 0] :
     f \in {"a.webm", "b.webm", "processed_b.mp3", "c.webm",
            "processed_c.mp3", "d.webm"}}

MaxSeedRows == 2         \* rows in the table when a session starts

SeededEnvInit ==
  /\ dbRows \in {rows \in SUBSET SeedRows :
                   Cardinality(rows) \in 1..MaxSeedRows}
  /\ storage = SeedObjects
  /\ now = 1
  /\ settings \in SettingsChoices
  /\ navigator \in RecorderNavigators
  /\ lastSent = NothingSent

(***************************************************************************)
(* AudioLogs: fetchEntries and generateTranscript                          *)
(***************************************************************************)
MaxFetches == 2          \* fetchEntries calls in one behaviour
MaxRegens == 1           \* generateTranscript calls in one behaviour

\* The rows with the largest created_at first (ties: the largest id first)
RECURSIVE OrderedEntries(_)
OrderedEntries(rows) ==
  IF rows = {} THEN <<>>
  ELSE LET first == CHOOSE r \in rows : \A o \in rows :
                      \/ r.created_at > o.created_at
                      \/ (r.created_at = o.created_at /\ r.id >= o.id)
       IN <<first>> \o OrderedEntries(rows \ {first})

\* ApiService.fetchEntries(userId), when the query succeeds
FetchedEntries(rows, userId) ==
  OrderedEntries({r \in rows : r.user_id = userId})

\* Mounting runs fetchEntries: loading is set and the query is awaited.
\* No entry is being deleted and the confirmation modal is closed.
ListIdle ==
  /\ deletingId = 0
  /\ showDeleteConfirm = 0
  /\ deletions = <<>>

LogsInit ==
  /\ ListIdle
  /\ entries = <<>>
  /\ loading = TRUE
  /\ fetching = [active |-> TRUE, count |-> 1]
  /\ transcribingId = 0
  /\ regens = <<>>

LogsIdle ==
  /\ ListIdle
  /\ entries = <<>>
  /\ loading = TRUE
  /\ fetching = [active |-> FALSE, count |-> 0]
  /\ transcribingId = 0
  /\ regens = <<>>

\* refreshTrigger changes: fetchEntries runs again.
FetchEntries ==
  /\ ~fetching.active
  /\ fetching.count < MaxFetches
  /\ loading' = TRUE
  /\ fetching' = [active |-> TRUE, count |-> fetching.count + 1]
  /\ UNCHANGED <<notLogs, envVars, entries, transcribingId, regens>>

\* ApiService.fetchEntries returns the rows, or [] when the query failed.
FetchEntriesReturns(ok) ==
  /\ fetching.active
  /\ entries' = IF ok THEN FetchedEntries(dbRows, UserId) ELSE <<>>
  /\ loading' = FALSE
  /\ fetching' = [fetching EXCEPT !.active = FALSE]
  /\ UNCHANGED <<notLogs, envVars, transcribingId, regens>>

EntryIds(list) == {list[i].id : i \in 1..Len(list)}
\* entries.find((e) => e.id === entryId), for an id that is in the list
FindEntry(list, id) ==
  list[CHOOSE i \in 1..Len(list) :
         list[i].id = id /\ \A j \in 1..(i - 1) : list[j].id # id]

\* Mutant: the stored default language is passed although auto-detect is on.
RegenerateLanguageDefaultOnly(userSettings) ==
  Some(userSettings.defaultLanguage)

\* const language = userSettings.autoDetectLanguage
\*   ? undefined : userSettings.defaultLanguage;
RegenerateLanguage(userSettings) ==
  IF userSettings.autoDetectLanguage THEN Undefined
  ELSE Some(userSettings.defaultLanguage)

\* Mutant: the map sets the transcription of every entry.
WithTranscriptionEveryEntry(list, id, transcription) ==
  [i \in 1..Len(list) |->
     [list[i] EXCEPT !.transcription = Some(transcription)]]

\* entries.map(e => e.id === entryId ? {...e, transcription} : e)
WithTranscription(list, id, transcription) ==
  [i \in 1..Len(list) |->
     IF list[i].id = id
     THEN [list[i] EXCEPT !.transcription = Some(transcription)]
     ELSE list[i]]

\* Generate / Update Transcript on entry id: generateTranscript starts.  The
\* call works on the entries of the render in which it was started.  Without
\* an audio reference it throws at once and the finally clears transcribingId.
GenerateTranscript(id, maxRegens) ==
  /\ ~loading
  /\ id \in EntryIds(entries)
  /\ transcribingId # id          \* the menu item is disabled otherwise
  /\ deletingId # id              \* the menu is closed and disabled otherwise
  /\ showDeleteConfirm = 0        \* the modal covers the list otherwise
  /\ Len(regens) < maxRegens
  /\ LET e == FindEntry(entries, id)
     IN IF Falsy(e.original_audio_url)
        THEN /\ transcribingId' = 0
             /\ regens' = Append(regens,
                  [id |-> id, pc |-> "done", closure |-> entries,
                   blobSize |-> 0, language |-> Undefined,
                   transcription |-> Undefined])
        ELSE /\ transcribingId' = id
             /\ regens' = Append(regens,
                  [id |-> id, pc |-> "download", closure |-> entries,
                   blobSize |-> 0, language |-> Undefined,
                   transcription |-> Undefined])
  /\ UNCHANGED <<notLogs, envVars, entries, loading, fetching>>

\* createSignedUrl, fetch and response.blob() have returned; a failure of any
\* of them ends the call (catch, finally).  Otherwise the language is read
\* from the settings and generateTranscription is called.
RegenDownloadReturns(c, ok) ==
  /\ c \in 1..Len(regens)
  /\ regens[c].pc = "download"
  /\ IF ok
     THEN /\ regens' = [regens EXCEPT
                 ![c].pc = "transcribe",
                 ![c].blobSize = ChunkSize,
                 ![c].language = RegenerateLanguage(settings)]
          /\ UNCHANGED transcribingId
     ELSE /\ regens' = [regens EXCEPT ![c].pc = "done"]
          /\ transcribingId' = 0
  /\ UNCHANGED <<notLogs, envVars, entries, loading, fetching>>

\* generateTranscription has returned: setEntries(updatedEntries), then
\* updateEntryTranscription is awaited.
RegenTranscribeReturns(c, apiKey, remote) ==
  /\ c \in 1..Len(regens)
  /\ regens[c].pc = "transcribe"
  /\ LET r == GenerateTranscription(EnableElevenLabs, apiKey,
                regens[c].language, navigator, regens[c].blobSize, now,
                remote)
     IN /\ lastSent' = [lastSent EXCEPT !.regenerate =
              [sent |-> r.sent.sent, languageCode |-> r.sent.languageCode,
               selected |-> "", manual |-> FALSE]]
        /\ IF r.kind = "throw"
           THEN /\ regens' = [regens EXCEPT ![c].pc = "done"]
                /\ transcribingId' = 0
                /\ UNCHANGED entries
           ELSE /\ regens' = [regens EXCEPT ![c].pc = "update",
                                ![c].transcription = Some(r.text)]
                /\ entries' = WithTranscription(regens[c].closure,
                                                regens[c].id, r.text)
                /\ UNCHANGED transcribingId
  /\ UNCHANGED <<notLogs, storage, dbRows, now, settings, navigator, loading,
                 fetching>>

\* update({transcription, updated_at}).eq("id", entryId) on the table
UpdatedRows(rows, id, transcription, clock) ==
  {IF r.id = id
   THEN [r EXCEPT !.transcription = Some(transcription), !.updated_at = clock]
   ELSE r : r \in rows}

\* updateEntryTranscription has returned (its result is not looked at); the
\* finally clears transcribingId.
RegenUpdateReturns(c, ok) ==
  /\ c \in 1..Len(regens)
  /\ regens[c].pc = "update"
  /\ dbRows' = IF ok THEN UpdatedRows(dbRows, regens[c].id,
                                     regens[c].transcription.s, now)
               ELSE dbRows
  /\ regens' = [regens EXCEPT ![c].pc = "done"]
  /\ transcribingId' = 0
  /\ UNCHANGED <<notLogs, storage, now, settings, navigator, lastSent,
                 entries, loading, fetching>>

LogsNext ==
  \/ FetchEntries
  \/ \E ok \in BOOLEAN : FetchEntriesReturns(ok)
  \/ \E id \in EntryIds(entries) : GenerateTranscript(id, MaxRegens)
  \/ \E c \in 1..MaxRegens, ok \in BOOLEAN : RegenDownloadReturns(c, ok)
  \/ \E c \in 1..MaxRegens, apiKey \in SaveApiKeys,
        remote \in SaveRemoteOutcomes :
       RegenTranscribeReturns(c, apiKey, remote)
  \/ \E c \in 1..MaxRegens, ok \in BOOLEAN : RegenUpdateReturns(c, ok)

(***************************************************************************)
(* ApiService.deleteEntry                                                  *)
(***************************************************************************)
MaxDeleteCalls == 2      \* deleteEntry calls in one behaviour

\* The index of the last "/" token of s, 0 when there is none
RECURSIVE LastSlash(_)
LastSlash(s) ==
  IF s = <<>> THEN 0
  ELSE IF s[Len(s)] = "/" THEN Len(s)
  ELSE LastSlash(SubSeq(s, 1, Len(s) - 1))

\* s.split("/").pop()
SplitPop(s) == SubSeq(s, LastSlash(s) + 1, Len(s))

\* Mutant: only the original reference is cleaned up.
FilesToDeleteOriginalOnly(row) ==
  IF ~Falsy(row.original_audio_url)
       /\ SplitPop(row.original_audio_url.s) # <<>>
  THEN << <<row.user_id, "/">> \o SplitPop(row.original_audio_url.s) >>
  ELSE <<>>

\* filesToDelete, from the fetched row
FilesToDelete(row) ==
  LET original ==
        IF ~Falsy(row.original_audio_url)
             /\ SplitPop(row.original_audio_url.s) # <<>>
        THEN << <<row.user_id, "/">> \o SplitPop(row.original_audio_url.s) >>
        ELSE <<>>
      processed ==
        IF ~Falsy(row.processed_audio_url)
             /\ row.processed_audio_url # row.original_audio_url
             /\ SplitPop(row.processed_audio_url.s) # <<>>
        THEN << <<row.user_id, "/">> \o SplitPop(row.processed_audio_url.s) >>
        ELSE <<>>
  IN original \o processed

NoRow == SeedRow(0, Undefined, Undefined, Undefined)

DeleteIdle == dcalls = <<>>
DeleteInit == dcalls = <<>>

\* deleteEntry(entryId) is called: the row is fetched.
DeleteEntry(id) ==
  /\ Len(dcalls) < MaxDeleteCalls
  /\ dcalls' = Append(dcalls,
       [id |-> id, pc |-> "fetch", row |-> NoRow, files |-> <<>>,
        log |-> <<"fetch">>, storageError |-> FALSE,
        result |-> "pending"])
  /\ UNCHANGED <<notDelete, envVars>>

\* The fetch returns.  It fails when the environment makes it fail or when no
\* row has the id (.single()); the catch then returns false.  Otherwise the
\* files are collected and removed, or, with no file, the row delete is issued.
DeleteFetchReturns(c, ok) ==
  /\ c \in 1..Len(dcalls)
  /\ dcalls[c].pc = "fetch"
  /\ LET found == {r \in dbRows : r.id = dcalls[c].id}
     IN IF ~ok \/ found = {}
        THEN dcalls' = [dcalls EXCEPT ![c].pc = "done",
                                      ![c].result = "false"]
        ELSE LET row == CHOOSE r \in found : TRUE
                 files == FilesToDelete(row)
             IN dcalls' = [dcalls EXCEPT
                  ![c].row = row,
                  ![c].files = files,
                  ![c].pc = IF Len(files) > 0 THEN "remove" ELSE "delete",
                  ![c].log = Append(@, IF Len(files) > 0 THEN "remove"
                                       ELSE "delete")]
  /\ UNCHANGED <<notDelete, envVars>>

\* storage.remove(filesToDelete) returns; an error is only logged.  The row
\* delete is issued.
DeleteRemoveReturns(c, ok) ==
  /\ c \in 1..Len(dcalls)
  /\ dcalls[c].pc = "remove"
  /\ storage' = IF ok
                THEN {o \in storage :
                        \A i \in 1..Len(dcalls[c].files) :
                          o.path # dcalls[c].files[i]}
                ELSE storage
  /\ dcalls' = [dcalls EXCEPT
       ![c].pc = "delete",
       ![c].storageError = ~ok,
       ![c].log = Append(Append(@, IF ok THEN "removed" ELSE "remove:failed"),
                         "delete")]
  /\ UNCHANGED <<notDelete, dbRows, now, settings, navigator, lastSent>>

\* Mutant: a storage error also fails the operation.
DeleteEntryResultStorageToo(storageError, deleteError) ==
  IF ~deleteError /\ ~storageError THEN "true" ELSE "false"

\* return !deleteError (the storage error was only logged)
DeleteEntryResult(storageError, deleteError) ==
  IF ~deleteError THEN "true" ELSE "false"

\* The row delete returns: deleteEntry returns !deleteError.
DeleteRowReturns(c, ok) ==
  /\ c \in 1..Len(dcalls)
  /\ dcalls[c].pc = "delete"
  /\ dbRows' = IF ok THEN {r \in dbRows : r.id # dcalls[c].id} ELSE dbRows
  /\ dcalls' = [dcalls EXCEPT
       ![c].pc = "done",
       ![c].result = DeleteEntryResult(dcalls[c].storageError, ~ok),
       ![c].log = Append(@, IF ok THEN "deleted" ELSE "delete:failed")]
  /\ UNCHANGED <<notDelete, storage, now, settings, navigator, lastSent>>

DeleteNext ==
  \/ \E id \in {r.id : r \in SeedRows} : DeleteEntry(id)
  \/ \E c \in 1..MaxDeleteCalls, ok \in BOOLEAN : DeleteFetchReturns(c, ok)
  \/ \E c \in 1..MaxDeleteCalls, ok \in BOOLEAN : DeleteRemoveReturns(c, ok)
  \/ \E c \in 1..MaxDeleteCalls, ok \in BOOLEAN : DeleteRowReturns(c, ok)

(***************************************************************************)
(* AudioLogs: confirmDelete, cancelDelete, deleteEntry                     *)
(***************************************************************************)
MaxListRows == 2         \* rows in the table when the list is mounted
MaxListRegens == 2       \* generateTranscript calls on the list
MaxListDeletes == 3      \* AudioLogs.deleteEntry calls on the list
MaxDeletesBesideRegens == 1   \* the same, while transcripts are regenerated

\* Mutant: the list of the render in which Delete was confirmed is filtered.
RemoveEntryFromClosure(prev, closure, id) ==
  SelectSeq(closure, LAMBDA e : e.id # id)

\* setEntries((prev) => prev.filter((entry) => entry.id !== entryId)); closure
\* is the entries of the render in which deleteEntry was called.
RemoveEntry(prev, closure, id) == SelectSeq(prev, LAMBDA e : e.id # id)

\* Delete Entry in the menu of entry id: confirmDelete opens the modal.
ConfirmDelete(id, maxDeletes) ==
  /\ ~loading
  /\ id \in EntryIds(entries)
  /\ deletingId # id              \* the menu is closed and disabled otherwise
  /\ showDeleteConfirm = 0        \* the modal covers the list otherwise
  /\ Len(deletions) < maxDeletes
  /\ showDeleteConfirm' = id
  /\ UNCHANGED <<notList, envVars, logsVars, deletingId, deletions>>

\* Cancel in the modal
CancelDelete ==
  /\ showDeleteConfirm # 0
  /\ showDeleteConfirm' = 0
  /\ UNCHANGED <<notList, envVars, logsVars, deletingId, deletions>>

\* Delete in the modal: deleteEntry(showDeleteConfirm) marks the entry and
\* starts the 100 ms timer.
DeleteConfirmed ==
  /\ showDeleteConfirm # 0
  /\ deletingId' = showDeleteConfirm
  /\ showDeleteConfirm' = 0
  /\ deletions' = Append(deletions,
       [id |-> showDeleteConfirm, pc |-> "delay", closure |-> entries,
        success |-> FALSE])
  /\ UNCHANGED <<notList, envVars, logsVars>>

\* The 100 ms timer fires: ApiService.deleteEntry is called and awaited.
DeleteDelayElapsed(c) ==
  /\ c \in 1..Len(deletions)
  /\ deletions[c].pc = "delay"
  /\ deletions' = [deletions EXCEPT ![c].pc = "api"]
  /\ UNCHANGED <<notList, envVars, logsVars, deletingId, showDeleteConfirm>>

\* ApiService.deleteEntry(id) run to its end against the table and the
\* bucket: what is left of them, and what it returns.
ApiDeleteEntry(rows, bucket, id, fetchOk, removeOk, deleteOk) ==
  LET found == {r \in rows : r.id = id}
  IN IF ~fetchOk \/ found = {}
     THEN [rows |-> rows, bucket |-> bucket, success |-> FALSE]
     ELSE LET files == FilesToDelete(CHOOSE r \in found : TRUE)
              removed == Len(files) > 0 /\ removeOk
              storageError == Len(files) > 0 /\ ~removeOk
          IN [rows |-> IF deleteOk THEN rows \ found ELSE rows,
              bucket |-> IF removed
                         THEN {o \in bucket : \A i \in 1..Len(files) :
                                 o.path # files[i]}
                         ELSE bucket,
              success |-> DeleteEntryResult(storageError, ~deleteOk) = "true"]

\* ApiService.deleteEntry returns: on success the 300 ms animation timer is
\* started, otherwise deletingId is cleared.
DeleteApiReturns(c, fetchOk, removeOk, deleteOk) ==
  /\ c \in 1..Len(deletions)
  /\ deletions[c].pc = "api"
  /\ LET r == ApiDeleteEntry(dbRows, storage, deletions[c].id, fetchOk,
                             removeOk, deleteOk)
     IN /\ dbRows' = r.rows
        /\ storage' = r.bucket
        /\ IF r.success
           THEN /\ deletions' = [deletions EXCEPT ![c].pc = "animate",
                                                  ![c].success = TRUE]
                /\ UNCHANGED deletingId
           ELSE /\ deletions' = [deletions EXCEPT ![c].pc = "done"]
                /\ deletingId' = 0
  /\ UNCHANGED <<notList, now, settings, navigator, lastSent, logsVars,
                 showDeleteConfirm>>

\* The 300 ms timer fires: the entry leaves the list, deletingId is cleared.
DeleteAnimationElapsed(c) ==
  /\ c \in 1..Len(deletions)
  /\ deletions[c].pc = "animate"
  /\ entries' = RemoveEntry(entries, deletions[c].closure, deletions[c].id)
  /\ deletingId' = 0
  /\ deletions' = [deletions EXCEPT ![c].pc = "done"]
  /\ UNCHANGED <<notList, envVars, loading, fetching, transcribingId, regens,
                 showDeleteConfirm>>

\* The mounted list: deletions of its entries.
ListDeletesNext ==
  \/ \E ok \in BOOLEAN : FetchEntriesReturns(ok)
  \/ \E id \in EntryIds(entries) : ConfirmDelete(id, MaxListDeletes)
  \/ CancelDelete
  \/ DeleteConfirmed
  \/ \E c \in 1..MaxListDeletes : DeleteDelayElapsed(c)
  \/ \E c \in 1..MaxListDeletes, fetchOk, removeOk, deleteOk \in BOOLEAN :
       DeleteApiReturns(c, fetchOk, removeOk, deleteOk)
  \/ \E c \in 1..MaxListDeletes : DeleteAnimationElapsed(c)

\* The mounted list: regenerations of transcripts beside deletions.
ListNext ==
  \/ \E ok \in BOOLEAN : FetchEntriesReturns(ok)
  \/ \E id \in EntryIds(entries) : GenerateTranscript(id, MaxListRegens)
  \/ \E c \in 1..MaxListRegens, ok \in BOOLEAN : RegenDownloadReturns(c, ok)
  \/ \E c \in 1..MaxListRegens, apiKey \in SaveApiKeys,
        remote \in SaveRemoteOutcomes :
       RegenTranscribeReturns(c, apiKey, remote)
  \/ \E c \in 1..MaxListRegens, ok \in BOOLEAN : RegenUpdateReturns(c, ok)
  \/ \E id \in EntryIds(entries) : ConfirmDelete(id, MaxDeletesBesideRegens)
  \/ CancelDelete
  \/ DeleteConfirmed
  \/ \E c \in 1..MaxDeletesBesideRegens : DeleteDelayElapsed(c)
  \/ \E c \in 1..MaxDeletesBesideRegens,
        fetchOk, removeOk, deleteOk \in BOOLEAN :
       DeleteApiReturns(c, fetchOk, removeOk, deleteOk)
  \/ \E c \in 1..MaxDeletesBesideRegens : DeleteAnimationElapsed(c)

\* The recorder, and deleteEntry called on the rows it has created.
SaveDeleteNext ==
  \/ RecorderNext
  \/ \E id \in {r.id : r \in dbRows} : DeleteEntry(id)
  \/ \E c \in 1..MaxDeleteCalls, ok \in BOOLEAN : DeleteFetchReturns(c, ok)
  \/ \E c \in 1..MaxDeleteCalls, ok \in BOOLEAN : DeleteRemoveReturns(c, ok)
  \/ \E c \in 1..MaxDeleteCalls, ok \in BOOLEAN : DeleteRowReturns(c, ok)

AppNext == RecorderNext \/ LogsNext

InitPlayer ==
  /\ PlayerInit
  /\ TranscribeIdle
  /\ EnvIdle
  /\ RecorderIdle
  /\ LogsIdle
  /\ DeleteIdle

SpecPlayer == InitPlayer /\ [][PlayerNext]_vars

InitTranscribe ==
  /\ TranscribeInit
  /\ PlayerIdle
  /\ EnvIdle
  /\ RecorderIdle
  /\ LogsIdle
  /\ DeleteIdle

SpecTranscribe == InitTranscribe /\ [][TranscribeNext]_vars

InitSave ==
  /\ EnvInit
  /\ RecorderInit
  /\ PlayerIdle
  /\ TranscribeIdle
  /\ LogsIdle
  /\ DeleteIdle

SpecSave == InitSave /\ [][RecorderNext]_vars

SpecRecorder == InitSave /\ [][RecorderLifeNext]_vars

SpecSaveDelete == InitSave /\ [][SaveDeleteNext]_vars

InitMic ==
  /\ EnvIdle
  /\ RecorderIdle
  /\ PlayerIdle
  /\ TranscribeIdle
  /\ LogsIdle
  /\ DeleteIdle

SpecMic == InitMic /\ [][MicNext]_vars

InitLogs ==
  /\ SeededEnvInit
  /\ LogsInit
  /\ PlayerIdle
  /\ TranscribeIdle
  /\ RecorderIdle
  /\ DeleteIdle

SpecLogs == InitLogs /\ [][LogsNext]_vars

\* The rows the list is mounted on
ListRows == {r \in SeedRows : r.id \in 1..MaxListRows}

InitList ==
  /\ dbRows = ListRows
  /\ storage = SeedObjects
  /\ now = 1
  /\ settings = [defaultLanguage |-> "eng", autoDetectLanguage |-> TRUE]
  /\ navigator = [language |-> Undefined, languages |-> <<>>]
  /\ lastSent = NothingSent
  /\ LogsInit
  /\ PlayerIdle
  /\ TranscribeIdle
  /\ RecorderIdle
  /\ DeleteIdle

SpecList == InitList /\ [][ListNext]_vars

SpecListDeletes == InitList /\ [][ListDeletesNext]_vars

InitApp ==
  /\ EnvInit
  /\ RecorderInit
  /\ LogsInit
  /\ PlayerIdle
  /\ TranscribeIdle
  /\ DeleteIdle

SpecApp == InitApp /\ [][AppNext]_vars

InitDelete ==
  /\ SeededEnvInit
  /\ DeleteInit
  /\ PlayerIdle
  /\ TranscribeIdle
  /\ RecorderIdle
  /\ LogsIdle

SpecDelete == InitDelete /\ [][DeleteNext]_vars

(***************************************************************************)
(* C1: for an entry with a positive stored duration, as long as the media  *)
(* element has reported no duration, or has reported a non-finite or zero  *)
(* one, the duration displayed for playback is the stored duration.        *)
(***************************************************************************)
DurationAuthority ==
  (GtZero(entry.duration) /\
     (reported = NONE \/ ~IsFinite(reported) \/ reported = Num(0)))
    => displayDuration = entry.duration

\* The element reported Infinity for an entry that stores a positive duration.
DurationAuthorityWitness ==
  /\ GtZero(entry.duration)
  /\ reported = INF
  /\ audio.metadata

(***************************************************************************)
(* C2: generateTranscription always returns a non-empty string and never   *)
(* raises: with the integration disabled, without a credential, with a     *)
(* credential of the wrong format, with a remote call that throws and with *)
(* a remote call that returns no text or only whitespace.                  *)
(***************************************************************************)
TranscriptionDegrades ==
  tresult # NoResult => (tresult.kind = "return" /\ Len(tresult.text) > 0)

\* A valid credential, and the remote call returned only whitespace.
TranscriptionDegradesWitness ==
  /\ tresult # NoResult
  /\ tcall.enabled
  /\ tcall.apiKey = Some(<<"s", "k", "_", "1">>)
  /\ tcall.remote.kind = "response"
  /\ tcall.remote.text = Some(<<" ", " ">>)

(***************************************************************************)
(* C7: a call with an explicit language code sends that code to the        *)
(* transcription service, whatever the browser locale is.                  *)
(***************************************************************************)
ExplicitLanguageWins ==
  (tresult # NoResult /\ tresult.sent.sent /\ ~Falsy(tcall.languageCode))
    => tresult.sent.languageCode = tcall.languageCode.s

\* A request went out with an explicit code that differs from the locale's.
ExplicitLanguageWinsWitness ==
  /\ tresult # NoResult
  /\ tresult.sent.sent
  /\ tcall.languageCode = Some("spa")
  /\ DetectUserLanguage(tcall.navigator) = "por"

(***************************************************************************)
(* Helpers for the claims about saveRecording.                             *)
(***************************************************************************)
InLog(event) == \E i \in 1..Len(save.log) : save.log[i] = event
RowsOfAttempt == {r \in dbRows : r.by = save.attempt}

(***************************************************************************)
(* C3: when the upload stage of a save fails (uploadAudio returns null),   *)
(* that save invokes neither the transcription stage nor the persistence   *)
(* stage and creates no Entry row.                                         *)
(***************************************************************************)
UploadFailureStopsSave ==
  InLog("upload:failed") =>
    /\ ~InLog("transcribe:issued")
    /\ ~InLog("persist:issued")
    /\ RowsOfAttempt = {}
    /\ inflight = {}
    /\ save.pc = "idle"

\* An upload failed and the save attempt has ended.
UploadFailureStopsSaveWitness ==
  /\ InLog("upload:failed")
  /\ save.pc = "idle"
  /\ recordingState.error = Some("Failed to upload audio file.")

(***************************************************************************)
(* C4: an object whose save ended in a persistence failure stays in the    *)
(* bucket as it was uploaded; neither the rest of that save nor a retry    *)
(* removes or overwrites it.                                               *)
(***************************************************************************)
OrphanSurvives == \A o \in orphans : o \in storage

\* A retry has uploaded again after a persistence failure.
OrphanSurvivesWitness ==
  /\ orphans # {}
  /\ \E o \in orphans : save.attempt > o.by
  /\ InLog("upload:ok") \/ InLog("upload:failed")

(***************************************************************************)
(* C5: the stages of one save run strictly in sequence: at most one        *)
(* request is in flight, transcription is requested only after the upload  *)
(* succeeded, persistence only after the transcription call returned.      *)
(***************************************************************************)
StagesInSequence ==
  /\ Cardinality(inflight) <= 1
  /\ \A q \in inflight :
       /\ q.attempt = save.attempt
       /\ q.stage = save.pc
       /\ q.stage = "transcribe" => InLog("upload:ok")
       /\ q.stage = "persist" =>
            (InLog("upload:ok") /\ InLog("transcribe:returned"))

\* The persistence request is in flight.
StagesInSequenceWitness ==
  /\ [stage |-> "persist", attempt |-> save.attempt] \in inflight
  /\ InLog("transcribe:returned")

(***************************************************************************)
(* C6: whatever the transcription stage did, a save whose upload and       *)
(* persistence succeeded has created exactly one row, whose transcript is  *)
(* the text the stage returned, has left no error and has called           *)
(* onEntryCreated.                                                         *)
(***************************************************************************)
TranscriptionNeverFailsSave ==
  [][/\ (save.pc = "transcribe" /\ save'.pc # "transcribe")
          => (save'.pc = "persist" /\ Len(save'.ctx.transcription) > 0)
     /\ (save.pc = "persist" /\ save'.pc = "idle"
           /\ save'.log[Len(save'.log)] = "persist:ok")
          => /\ \E r \in dbRows' \ dbRows :
                  /\ dbRows' = dbRows \cup {r}
                  /\ r.transcription = Some(save.ctx.transcription)
                  /\ r.by = save.attempt
             /\ recordingState'.error = Undefined
             /\ ~recordingState'.isLoading
             /\ entryCreated' = entryCreated + 1]_vars

\* A save completed although the remote transcription call threw.
TranscriptionNeverFailsSaveWitness ==
  /\ InLog("persist:ok")
  /\ lastSent.save.sent
  /\ \E r \in RowsOfAttempt :
       r.transcription = Some("Transcription failed on " \o ToLocaleString(now)
            \o " - please try again later. Error: quota exceeded")

(***************************************************************************)
(* C8: with auto-detect enabled and no explicit language, the code sent to *)
(* the transcription service is the one derived from the browser locale,   *)
(* not the stored default language, when a recording is saved and when a   *)
(* transcript is regenerated.                                              *)
(***************************************************************************)
AutoDetectUsesLocale ==
  settings.autoDetectLanguage =>
    \A caller \in {"save", "regenerate"} :
      lastSent[caller].sent =>
        lastSent[caller].languageCode = DetectUserLanguage(navigator)

\* Both callers have sent a request from a Portuguese browser while the
\* stored default language was another one.
AutoDetectUsesLocaleWitness ==
  /\ settings.autoDetectLanguage
  /\ navigator.language = Some(<<"p", "t", "-", "B", "R">>)
  /\ settings.defaultLanguage # "por"
  /\ lastSent.save.sent /\ lastSent.save.languageCode = "por"
  /\ lastSent.regenerate.sent /\ lastSent.regenerate.languageCode = "por"

(***************************************************************************)
(* C9: a language the user picked in the recorder's dropdown before saving *)
(* is the one sent to the transcription service, in preference to the      *)
(* browser-locale guess.                                                   *)
(***************************************************************************)
ManualSelectionWins ==
  (lastSent.save.sent /\ lastSent.save.manual)
    => lastSent.save.languageCode = lastSent.save.selected

(***************************************************************************)
(* C10: when deleteEntry issues the row delete, it has asked storage       *)
(* before to remove the objects of the row's references: both when the     *)
(* original and the processed reference are distinct, one when they are    *)
(* equal.                                                                  *)
(***************************************************************************)
\* The object a stored reference designates: the path itself, or the path
\* that follows the bucket name in a public URL.
RefObjectPath(ref) ==
  IF ref[1] = "https:" THEN SubSeq(ref, 8, Len(ref)) ELSE ref

IndexIn(log, event) ==
  IF \E i \in 1..Len(log) : log[i] = event
  THEN CHOOSE i \in 1..Len(log) : log[i] = event
  ELSE 0

RowDeleteIssued(c) == IndexIn(dcalls[c].log, "delete") > 0
RemovalAttemptedFirst(c) ==
  /\ IndexIn(dcalls[c].log, "remove") > 0
  /\ IndexIn(dcalls[c].log, "remove") < IndexIn(dcalls[c].log, "delete")

DeleteRemovesBothPaths ==
  \A c \in 1..Len(dcalls) :
    LET row == dcalls[c].row
        files == dcalls[c].files
    IN (RowDeleteIssued(c) /\ ~Falsy(row.original_audio_url)
          /\ ~Falsy(row.processed_audio_url))
         => /\ RemovalAttemptedFirst(c)
            /\ IF row.original_audio_url # row.processed_audio_url
               THEN /\ Len(files) = 2
                    /\ files[1] = RefObjectPath(row.original_audio_url.s)
                    /\ files[2] = RefObjectPath(row.processed_audio_url.s)
                    /\ files[1] # files[2]
               ELSE /\ Len(files) = 1
                    /\ files[1] = RefObjectPath(row.original_audio_url.s)

\* The row delete of an entry with two distinct references has been issued,
\* and so has the one of an entry with equal references.
DeleteRemovesBothPathsWitness ==
  /\ \E c \in 1..Len(dcalls) :
       /\ RowDeleteIssued(c)
       /\ ~Falsy(dcalls[c].row.processed_audio_url)
       /\ dcalls[c].row.original_audio_url # dcalls[c].row.processed_audio_url
  /\ \E c \in 1..Len(dcalls) :
       /\ RowDeleteIssued(c)
       /\ ~Falsy(dcalls[c].row.original_audio_url)
       /\ dcalls[c].row.original_audio_url = dcalls[c].row.processed_audio_url
(***************************************************************************)
(* C11: once the row fetch of deleteEntry has succeeded, the row delete is *)
(* attempted whatever the storage removal returned, and the reported       *)
(* result is the outcome of the row delete alone: true exactly when the    *)
(* row delete succeeded.                                                   *)
(***************************************************************************)
FetchSucceeded(c) == Len(dcalls[c].log) > 1

DeleteResultIsRowDelete ==
  \A c \in 1..Len(dcalls) :
    /\ IndexIn(dcalls[c].log, "remove:failed") > 0 => RowDeleteIssued(c)
    /\ (dcalls[c].pc = "done" /\ FetchSucceeded(c))
         => /\ RowDeleteIssued(c)
            /\ dcalls[c].result = "true"
                 <=> IndexIn(dcalls[c].log, "deleted") > 0
            /\ dcalls[c].result = "false"
                 <=> IndexIn(dcalls[c].log, "delete:failed") > 0

\* One call reported success after a failed storage removal, another one
\* reported failure after a successful storage removal.
DeleteResultIsRowDeleteWitness ==
  /\ \E c \in 1..Len(dcalls) :
       /\ dcalls[c].pc = "done"
       /\ IndexIn(dcalls[c].log, "remove:failed") > 0
       /\ dcalls[c].result = "true"
  /\ \E c \in 1..Len(dcalls) :
       /\ dcalls[c].pc = "done"
       /\ IndexIn(dcalls[c].log, "removed") > 0
       /\ dcalls[c].result = "false"
(***************************************************************************)
(* C12: every seek request is clamped to [0, displayedDuration], where     *)
(* displayedDuration is the value shown when the request is made, the      *)
(* stored-duration fallback included: a request beyond it sets the         *)
(* position to exactly the displayed duration.                             *)
(***************************************************************************)
SeekClampedToDisplayed ==
  (seek.made /\ IsFinite(seek.displayed))
    => seek.position = Max(0, Min(seek.displayed.v, seek.requested))
(***************************************************************************)
(* C13: the timer value is frozen when capture ends: while a finalized     *)
(* recording (a blob) is waiting to be saved or discarded, the duration    *)
(* that a save would write does not change, whatever happens in between.   *)
(***************************************************************************)
DurationFrozenAfterStop ==
  [][(recordingState.audioBlob.def /\ recordingState'.audioBlob.def)
       => recordingState'.duration = recordingState.duration]_vars
RecordingLeavesOnlyByDiscard ==
  [][(RecorderPhase(recordingState) = "Recording"
        /\ RecorderPhase(recordingState') = "Idle")
       => (isDeleting /\ ~isDeleting')]_vars
(***************************************************************************)
(* C16: when the recorder is torn down, in any state, every running        *)
(* duration timer is cancelled and every live capture stream is released.  *)
(***************************************************************************)
TimerRunning(m) == \E t \in DOMAIN m.timers : m.timers[t].live
StreamLive(m) ==
  \/ \E i \in DOMAIN m.recorders : m.recorders[i].streamLive
  \/ m.orphanStreams > 0

TeardownReleasesEverything ==
  [][(mounted /\ ~mounted') => (~TimerRunning(mic') /\ ~StreamLive(mic'))]_vars

(***************************************************************************)
(* C18: the playing flag is true only while the media element is actually  *)
(* playing, in the entry player and in the recorder preview: not while     *)
(* play() is pending, not after it was rejected, not while paused.         *)
(***************************************************************************)
PlayerElementPlaying == audioElement /\ ~audio.paused /\ ~audio.failed
PreviewElementPlaying ==
  preview.exists /\ ~preview.paused /\ ~preview.failed /\ ~preview.pending

PlayingFlagReflectsElement ==
  /\ isPlaying => PlayerElementPlaying
  /\ recordingState.isPlaying => PreviewElementPlaying
(***************************************************************************)
(* C17: when a save attempt fails at the empty-blob check, the upload or   *)
(* the persistence stage, the recorder is back in the Finalized state with *)
(* the blob and the duration it had when the attempt started, the loading  *)
(* flag cleared and the error set, and onEntryCreated has not been called. *)
(***************************************************************************)
SaveAttemptFails ==
  /\ save' # save
  /\ save'.pc = "idle"
  /\ save'.log[Len(save'.log)] \in {"empty", "upload:failed", "persist:failed"}

SaveFailureKeepsRecording ==
  [][SaveAttemptFails
       => /\ RecorderPhase(recordingState') = "Finalized"
          /\ recordingState'.audioBlob = save'.ctx.blob
          /\ recordingState'.duration = save'.ctx.duration
          /\ ~Falsy(recordingState'.error)
          /\ entryCreated' = entryCreated]_vars
(***************************************************************************)
(* C19: at most one audio element is playing at any time.                  *)
(***************************************************************************)
OtherElementPlaying == otherEntry.audioElement /\ ~otherEntry.paused

SinglePlayingElement == ~(PlayerElementPlaying /\ OtherElementPlaying)

(***************************************************************************)
(* C20: a signed URL is never used past its expiry: no play() is called on *)
(* an element whose signed URL has expired.                                *)
(***************************************************************************)
PlaysOnlyFreshUrl ==
  [][(playPending' > playPending) => ~signedUrl'.expired]_vars
(***************************************************************************)
(* C21: the displayed duration of an entry never changes from one positive *)
(* value to a different one: once a positive duration is displayed, what   *)
(* the media element reports afterwards does not replace it.               *)
(***************************************************************************)
DisplayedDurationStable ==
  [][(GtZero(displayDuration) /\ GtZero(displayDuration'))
       => displayDuration' = displayDuration]_vars

(***************************************************************************)
(* C30: in the entry player the displayed position never exceeds the       *)
(* displayed duration: whenever displayDuration is positive,               *)
(* 0 <= currentTime <= displayDuration.                                    *)
(***************************************************************************)
PositionWithinDisplayed ==
  GtZero(displayDuration)
    => /\ 0 <= currentTime
       /\ IsFinite(displayDuration) => currentTime <= displayDuration.v

(***************************************************************************)
(* C27: the recorder's duration timer is running exactly while the         *)
(* recorder is in the Recording state: a timer is live if and only if      *)
(* isRecording is true.                                                    *)
(***************************************************************************)
TimerLiveIffRecording ==
  TimerRunning(mic) <=> recordingState.isRecording

(***************************************************************************)
(* C22: save is not re-entrant.  At most one save pipeline of the recorder *)
(* is in flight at any time (every outstanding request belongs to the      *)
(* current attempt, and to it only while the pipeline runs), and over any  *)
(* sequence of save clicks, failures and retries the recordings finalized  *)
(* so far have produced at most one Entry row each.                        *)
(***************************************************************************)
FinalizedRecordings ==
  {i \in DOMAIN mic.recorders : mic.recorders[i].state = "inactive"}
SaveNotReentrant ==
  /\ \A r \in inflight : r.attempt = save.attempt /\ save.pc # "idle"
  /\ save.pc # "idle" <=> recordingState.isLoading
  /\ Cardinality(dbRows) <= Cardinality(FinalizedRecordings)
SaveNotReentrantWitness ==
  /\ save.attempt = 2
  /\ InLog("persist:ok")
  /\ Cardinality(dbRows) = 1
  /\ inflight = {}

(***************************************************************************)
(* C25: the microphone is singly owned.  Over any sequence of start clicks *)
(* (a second click while the acquisition of the first is pending           *)
(* included), stops and errors, at most one capture stream and at most one *)
(* duration timer of the recorder are live at any time.                    *)
(***************************************************************************)
LiveStreams(m) ==
  Cardinality({i \in DOMAIN m.recorders : m.recorders[i].streamLive})
    + m.orphanStreams
LiveTimers(m) == Cardinality({t \in DOMAIN m.timers : m.timers[t].live})

MicrophoneSinglyOwned ==
  /\ LiveStreams(mic) <= 1
  /\ LiveTimers(mic) <= 1

(***************************************************************************)
(* C26: every storage path the client writes or removes is prefixed by the *)
(* owner id segment: uploadAudio writes to {owner}/{filename}, and for an  *)
(* entry created by saveRecording the path deleteEntry asks storage to     *)
(* remove is exactly the path that was uploaded for that entry (so a       *)
(* removal that succeeds leaves no object of that entry behind).           *)
(***************************************************************************)
OwnerPrefixed(path) ==
  Len(path) = 3 /\ path[1] = UserId /\ path[2] = "/" /\ path[3] # "/"
UploadedFor(row) == {o.path : o \in {x \in storage : x.by = row.by}}
PastFetch(c) ==
  dcalls[c].pc \in {"remove", "delete", "done"} /\ dcalls[c].row # NoRow

StoragePathsOwned ==
  /\ \A o \in storage : OwnerPrefixed(o.path)
  /\ \A c \in DOMAIN dcalls :
       PastFetch(c) =>
         /\ Len(dcalls[c].files) = 1
         /\ OwnerPrefixed(dcalls[c].files[1])
         /\ dcalls[c].files[1] = dcalls[c].row.original_audio_url.s
         /\ UploadedFor(dcalls[c].row) \subseteq {dcalls[c].files[1]}
         /\ (dcalls[c].pc \in {"delete", "done"} /\ ~dcalls[c].storageError)
              => UploadedFor(dcalls[c].row) = {}
StoragePathsOwnedWitness ==
  \E c \in DOMAIN dcalls :
    /\ dcalls[c].pc = "done"
    /\ dcalls[c].result = "true"
    /\ ~dcalls[c].storageError
    /\ dcalls[c].row.by = 2
    /\ \E o \in storage : o.by = 1

(***************************************************************************)
(* C29: after a transcript regeneration has completed, the transcript      *)
(* displayed for the entry equals the transcript persisted in its database *)
(* row, also when the database update failed.                              *)
(***************************************************************************)
DisplayedEqualsPersisted(id) ==
  \A i \in 1..Len(entries) : \A r \in dbRows :
    (entries[i].id = id /\ r.id = id)
      => entries[i].transcription = r.transcription

DisplayedTranscriptPersisted ==
  \A c \in 1..Len(regens) :
    regens[c].pc = "done" => DisplayedEqualsPersisted(regens[c].id)

(***************************************************************************)
(* C23: while a delete or a transcript regeneration of an entry is in      *)
(* flight, the same operation cannot be started again on that entry, even  *)
(* when the same kind of operation has meanwhile been started on another   *)
(* entry: no two running deletions, and no two running regenerations, are  *)
(* of the same entry.                                                      *)
(***************************************************************************)
RunningOnce(calls) ==
  \A c, d \in 1..Len(calls) :
    (c # d /\ calls[c].pc # "done" /\ calls[d].pc # "done")
      => calls[c].id # calls[d].id

OperationNotRestarted ==
  /\ RunningOnce(deletions)
  /\ RunningOnce(regens)

(***************************************************************************)
(* C24: when deletions of several entries are in flight concurrently, each *)
(* completion updates the in-memory list exactly once: at any time the     *)
(* displayed list is the list that was fetched minus exactly the entries   *)
(* whose delete reported success and has completed, whatever the order of  *)
(* completion.                                                             *)
(***************************************************************************)
CompletedDeletes ==
  {deletions[c].id : c \in {d \in 1..Len(deletions) :
                              deletions[d].pc = "done" /\ deletions[d].success}}

DeletionsFilterList ==
  (Len(deletions) > 0 /\ regens = <<>>)
    => entries = SelectSeq(FetchedEntries(ListRows, UserId),
                           LAMBDA e : e.id \notin CompletedDeletes)
DeletionsFilterListWitness ==
  /\ Len(deletions) = 3
  /\ \A c \in 1..3 : deletions[c].pc = "done"
  /\ deletions[1].id # deletions[2].id
  /\ deletions[1].closure = deletions[2].closure
  /\ deletions[1].success
  /\ ~deletions[2].success
  /\ deletions[3].success
  /\ deletions[3].id = deletions[2].id
  /\ Len(deletions[3].closure) = 2
  /\ entries = <<>>

(***************************************************************************)
(* C28: a transcript regeneration that completes after a concurrent change *)
(* of the entry list does not undo that change: the step that shows its    *)
(* transcript changes the list as it is at that moment, in the entry it is *)
(* about only, so it never re-inserts an entry whose deletion completed    *)
(* while it was in flight and never discards the transcript written by     *)
(* another regeneration that completed in the meantime.                    *)
(***************************************************************************)
RegenerationKeepsConcurrentChanges ==
  [][\A c \in 1..Len(regens) :
       (regens[c].pc = "transcribe" /\ regens'[c].pc = "update")
         => entries' = WithTranscription(entries, regens[c].id,
                                         regens'[c].transcription.s)]_vars
====
